---- MODULE Spec2Model ----
(***************************************************************************)
(* Model of the two evaluateFeoc implementations of Solar-Calc:            *)
(*   - the prohibited-origin (FEOC) calculator, src/unnamed/part_004       *)
(*   - the domestic-content evaluator,          src/unnamed/part_005       *)
(* One behaviour is one call of one implementation: the configuration is   *)
(* drawn in Init, every iteration of the `for (const raw of ...)` loop is  *)
(* one step, and the code after the loop (percentages, compliance, the     *)
(* returned object) is the final step.                                     *)
(*                                                                         *)
(* Encoding of JavaScript values:                                          *)
(*   - a number slot holds a natural number or NoNum (null);               *)
(*   - a tri-state boolean is one of the strings "true", "false", "null";  *)
(*   - a raw number-ish input is a record [kind, val], kind "absent"       *)
(*     (undefined/null), "empty" (''), "text" (a string Number() turns     *)
(*     into NaN), "number" or "numstr" (a numeric string);                 *)
(*   - a raw boolean-ish input is "<absent>", "<true>", "<false>" (real    *)
(*     booleans) or a plain string such as "yes";                          *)
(*   - a raw string input is "" when it is undefined, null or empty (the   *)
(*     code only tests such fields for falsiness);                         *)
(*   - a date is the integer yyyymmdd, which orders like the time value.   *)
(* Line totals are whole currency units, so .toFixed(2) leaves the totals  *)
(* as they are; percentages of the prohibited-origin calculator are kept   *)
(* in hundredths of a percent, the grid .toFixed(2) rounds to.             *)
(***************************************************************************)
EXTENDS Integers, Sequences, FiniteSets, TLC

\* ------------------------------------------------------------------------
\* Bounds of the model
\* ------------------------------------------------------------------------
MaxItems == 2

MaxEligItems == 1

\* ------------------------------------------------------------------------
\* Encodings
\* ------------------------------------------------------------------------
NoNum == -1

Bool3(b) == IF b THEN "true" ELSE "false"

Absent == [kind |-> "absent", val |-> 0]

EmptyStr == [kind |-> "empty", val |-> 0]

Text == [kind |-> "text", val |-> 0]

Num(n) == [kind |-> "number", val |-> n]

NumStr(n) == [kind |-> "numstr", val |-> n]

\* ------------------------------------------------------------------------
\* Input domains
\* ------------------------------------------------------------------------
Costs == {1, 1000, 9000, 30000}

NameTypes == {<<"", "racking">>, <<"", "panel">>, <<"", "anchor">>}

\* Items in the plain spelling of each field: every combination of bucket
\* word, price (or none), origin (or none) and domestic flag (or none).
CoreItems ==
    [nt : NameTypes,
     line_total : {Absent} \cup {Num(c) : c \in Costs},
     origin_country : {"", "US", "CN", "DE"},
     is_domestic : {"<absent>", "<true>", "<false>"}]

\* Items in the other spellings the parsers accept or reject: a price that
\* is a numeric or a non-numeric string, a lower-case origin, a flag that is
\* a word.
VariantItems ==
    [nt : {<<"", "panel">>},
     line_total : {Text, NumStr(1000)},
     origin_country : {"", "us", "CN"},
     is_domestic : {"<absent>", "yes", "maybe"}]

Items == CoreItems \cup VariantItems

RawYears == {Absent, Num(2024), Num(2026), NumStr(2027)}

ClockYears == {2025, 2026}

RawMW == {Absent, EmptyStr, Text, Num(0), Num(1), Num(5)}

RawDates == {Absent, Text, NumStr(20230128), NumStr(20230129), NumStr(20230130)}

RawWages == {"<absent>", "<true>", "<false>", "no", "maybe"}

\* ------------------------------------------------------------------------
\* Helpers shared by both modules (part_004:15-34, part_005:10-29)
\* ------------------------------------------------------------------------
\* parseBooleanish: null/undefined -> null, a boolean -> itself, otherwise
\* the trimmed lower-cased string is looked up in the two word lists.
parseBooleanish(value) ==
    IF value = "<absent>" THEN "null"
    ELSE IF value = "<true>" THEN "true"
    ELSE IF value = "<false>" THEN "false"
    ELSE IF value \in {"1", "true", "t", "yes", "y", "on"} THEN "true"
    ELSE IF value \in {"0", "false", "f", "no", "n", "off"} THEN "false"
    ELSE "null"

\* A parser without the finiteness test: a string that is no number is
\* priced 0.
parseNumberish_NoFiniteCheck(value) ==
    IF value.kind \in {"absent", "empty"} THEN NoNum
    ELSE IF value.kind = "text" THEN 0
    ELSE value.val

\* parseNumberish: null, undefined and '' -> null; otherwise Number(value),
\* kept only when finite.
parseNumberish(value) ==
    IF value.kind \in {"absent", "empty"} THEN NoNum
    ELSE IF value.kind = "text" THEN NoNum
    ELSE value.val

\* parseDateish: a falsy value -> null; otherwise new Date(value), kept only
\* when its time value is finite.
parseDateish(value) ==
    IF value.kind \in {"absent", "empty"} THEN NoNum
    ELSE IF value.kind = "text" THEN NoNum
    ELSE value.val

\* String.prototype.toUpperCase on the origin codes of the model.
toUpperCase(s) == IF s = "us" THEN "US" ELSE s

\* a ?? b on number slots.
Coalesce(a, b) == IF a = NoNum THEN b ELSE a

\* ------------------------------------------------------------------------
\* Prohibited-origin calculator (part_004)
\* ------------------------------------------------------------------------
FEOC_COUNTRIES == {"CN", "RU", "KP", "IR"}

\* The limit taking effect two years early.
getMaxAllowedFEOCPercent_Early(year) ==
    IF year = NoNum THEN 0
    ELSE IF year >= 2024 THEN 0
    ELSE 100

getMaxAllowedFEOCPercent(year) ==
    IF year = NoNum THEN 0
    ELSE IF year >= 2026 THEN 0
    ELSE 100

\* The words of steelIronRegex; \b...\b makes it a whole-word match.
SteelIronWords4 ==
    {"rack", "racking", "rail", "mount", "mounting", "standoff", "foot",
     "clamp", "bolt", "bracket", "splice", "flashing", "base", "anchor",
     "ballast", "beam", "channel", "post", "stanchion", "fastener", "screw",
     "washer", "nut", "hardware", "stringer", "purlin", "torque tube"}

classifyFeocBucket4(item) ==
    IF item.nt[1] \in SteelIronWords4 \/ item.nt[2] \in SteelIronWords4
    THEN "steel_iron" ELSE "manufactured"

isFEOCCountry(originCountry) ==
    IF originCountry = "" THEN FALSE
    ELSE toUpperCase(originCountry) \in FEOC_COUNTRIES

isForeignContent(originCountry, isDomestic) ==
    IF originCountry # "" /\ toUpperCase(originCountry) = "US" THEN FALSE
    ELSE IF isDomestic = "true" THEN FALSE
    ELSE TRUE

Acc4Init ==
    [steel_total |-> 0, steel_foreign_total |-> 0, steel_feoc_total |-> 0,
     steel_unknown_total |-> 0, manufactured_total |-> 0,
     manufactured_foreign_total |-> 0, manufactured_feoc_total |-> 0,
     manufactured_unknown_total |-> 0]

Add(b, x) == IF b THEN x ELSE 0

\* One iteration of the loop of part_004:90-131 on the accumulator `a`, the
\* list `parts` (feocParts) and the cost `dom` of the items that
\* isForeignContent leaves out of the foreign totals (not a field of the
\* code: it is the "domestic cost" of the partition law).
LoopBody4(a, parts, dom, raw) ==
    LET bucket == classifyFeocBucket4(raw)
        lt == parseNumberish(raw.line_total)
        originCountry == raw.origin_country
        isDomestic == parseBooleanish(raw.is_domestic)
        isForeign == isForeignContent(originCountry, isDomestic)
        isFeoc == isFEOCCountry(originCountry)
        unknown == originCountry = "" /\ isDomestic = "null"
    IN  IF lt = NoNum THEN [acc |-> a, parts |-> parts, dom |-> dom]
        ELSE IF bucket = "steel_iron" THEN
          [acc |-> [a EXCEPT
                     !.steel_total = @ + lt,
                     !.steel_foreign_total = @ + Add(isForeign, lt),
                     !.steel_feoc_total = @ + Add(isFeoc, lt),
                     !.steel_unknown_total = @ + Add(unknown, lt)],
           parts |-> IF isFeoc
                     THEN Append(parts, [name |-> raw.nt[1], origin_country |-> originCountry,
                                         category |-> "Steel/Iron", line_total |-> lt])
                     ELSE parts,
           dom |-> [dom EXCEPT !.steel = @ + Add(~isForeign, lt)]]
        ELSE
          [acc |-> [a EXCEPT
                     !.manufactured_total = @ + lt,
                     !.manufactured_foreign_total = @ + Add(isForeign, lt),
                     !.manufactured_feoc_total = @ + Add(isFeoc, lt),
                     !.manufactured_unknown_total = @ + Add(unknown, lt)],
           parts |-> IF isFeoc
                     THEN Append(parts, [name |-> raw.nt[1], origin_country |-> originCountry,
                                         category |-> "Manufactured Products", line_total |-> lt])
                     ELSE parts,
           dom |-> [dom EXCEPT !.manufactured = @ + Add(~isForeign, lt)]]

\* Number(((part / whole) * 100).toFixed(2)), in hundredths of a percent:
\* the quotient rounded to the nearest hundredth.
PctFixed2(part, whole) == (part * 20000 + whole) \div (2 * whole)

\* Number(x.toFixed(2)) of a whole amount.
Fixed2(x) == x

\* The distinct origin_country values of feocParts, [...new Set(...)].
Countries(parts) == {parts[i].origin_country : i \in 1..Len(parts)}

\* steelForeignPct / manufacturedForeignPct of part_004:138-144.
ForeignPct4(total, foreign, unknown) ==
    IF total > 0
    THEN (IF unknown > 0 THEN NoNum ELSE PctFixed2(foreign, total))
    ELSE NoNum

\* The code after the loop of part_004 (133-199).
Result4(a, parts, year) ==
    LET maxAllowedFEOC == getMaxAllowedFEOCPercent(year)
        total_project_cost == a.steel_total + a.manufactured_total
        total_foreign_cost == a.steel_foreign_total + a.manufactured_foreign_total
        total_feoc_cost == a.steel_feoc_total + a.manufactured_feoc_total
        steelForeignPct ==
            ForeignPct4(a.steel_total, a.steel_foreign_total, a.steel_unknown_total)
        manufacturedForeignPct ==
            ForeignPct4(a.manufactured_total, a.manufactured_foreign_total,
                        a.manufactured_unknown_total)
        totalForeignPct ==
            IF total_project_cost > 0 THEN PctFixed2(total_foreign_cost, total_project_cost) ELSE 0
        steelFeocPct ==
            IF a.steel_total > 0 THEN PctFixed2(a.steel_feoc_total, a.steel_total) ELSE 0
        manufacturedFeocPct ==
            IF a.manufactured_total > 0
            THEN PctFixed2(a.manufactured_feoc_total, a.manufactured_total) ELSE 0
        totalFeocPct ==
            IF total_project_cost > 0 THEN PctFixed2(total_feoc_cost, total_project_cost) ELSE 0
    IN  [inputs |-> [installationYear |-> year, maxAllowedFEOCPercent |-> maxAllowedFEOC],
         totals |-> [steel_total |-> Fixed2(a.steel_total),
                     steel_foreign_total |-> Fixed2(a.steel_foreign_total),
                     steel_feoc_total |-> Fixed2(a.steel_feoc_total),
                     steel_unknown_total |-> Fixed2(a.steel_unknown_total),
                     manufactured_total |-> Fixed2(a.manufactured_total),
                     manufactured_foreign_total |-> Fixed2(a.manufactured_foreign_total),
                     manufactured_feoc_total |-> Fixed2(a.manufactured_feoc_total),
                     manufactured_unknown_total |-> Fixed2(a.manufactured_unknown_total),
                     total_project_cost |-> Fixed2(total_project_cost),
                     total_foreign_cost |-> Fixed2(total_foreign_cost),
                     total_feoc_cost |-> Fixed2(total_feoc_cost)],
         percentages |-> [steel_foreign_percent |-> steelForeignPct,
                          manufactured_foreign_percent |-> manufacturedForeignPct,
                          total_foreign_percent |-> totalForeignPct,
                          steel_feoc_percent |-> steelFeocPct,
                          manufactured_feoc_percent |-> manufacturedFeocPct,
                          total_feoc_percent |-> totalFeocPct],
         compliance |-> [feocCompliant |-> Bool3(totalFeocPct <= maxAllowedFEOC * 100),
                         feocDetected |-> Bool3(Len(parts) > 0),
                         feocCountries |-> Countries(parts),
                         feocParts |-> parts]]

\* ------------------------------------------------------------------------
\* Domestic-content evaluator (part_005)
\* ------------------------------------------------------------------------
getRequiredManufacturedDomesticPercent(year) ==
    IF year = NoNum THEN 40
    ELSE IF year >= 2029 THEN 55
    ELSE IF year >= 2027 THEN 50
    ELSE IF year >= 2025 THEN 45
    ELSE 40

SteelIronWords5 ==
    {"rack", "racking", "rail", "mount", "mounting", "standoff", "foot",
     "clamp", "bolt", "bracket", "splice", "flashing", "base"}

classifyFeocBucket5(item) ==
    IF item.nt[2] \in SteelIronWords5 \/ item.nt[1] \in SteelIronWords5
    THEN "steel_iron" ELSE "manufactured"

\* new Date('2023-01-29')
jan29_2023 == 20230129

Acc5Init ==
    [steel_total |-> 0, steel_domestic_total |-> 0, steel_unknown_total |-> 0,
     manufactured_total |-> 0, manufactured_domestic_total |-> 0,
     manufactured_unknown_total |-> 0]

\* One iteration of the loop of part_005:81-98 on the accumulator `a` and
\* the cost `frn` of the items that fall through both branches of the
\* if / else-if (is_domestic explicitly false; not a field of the code: it
\* is the "foreign total" of the partition law).
LoopBody5(a, frn, raw) ==
    LET bucket == classifyFeocBucket5(raw)
        lt == parseNumberish(raw.line_total)
        isDomestic == parseBooleanish(raw.is_domestic)
    IN  IF lt = NoNum THEN [acc |-> a, frn |-> frn]
        ELSE IF bucket = "steel_iron" THEN
          [acc |-> [a EXCEPT
                     !.steel_total = @ + lt,
                     !.steel_domestic_total = @ + Add(isDomestic = "true", lt),
                     !.steel_unknown_total =
                         @ + Add(isDomestic # "true" /\ isDomestic = "null", lt)],
           frn |-> [frn EXCEPT
                     !.steel = @ + Add(isDomestic # "true" /\ isDomestic # "null", lt)]]
        ELSE
          [acc |-> [a EXCEPT
                     !.manufactured_total = @ + lt,
                     !.manufactured_domestic_total = @ + Add(isDomestic = "true", lt),
                     !.manufactured_unknown_total =
                         @ + Add(isDomestic # "true" /\ isDomestic = "null", lt)],
           frn |-> [frn EXCEPT
                     !.manufactured = @ + Add(isDomestic # "true" /\ isDomestic # "null", lt)]]

\* Math.round((part / whole) * 100): the nearest whole percent, halves up.
PctRound(part, whole) == (part * 200 + whole) \div (2 * whole)

\* The three eligibility paths of part_005:54-63.
Eligibility(cfg) ==
    LET maxMW == parseNumberish(cfg.maxNetOutputMW)
        constructionDate == parseDateish(cfg.constructionStartDate)
        wage == parseBooleanish(cfg.prevailingWageCompliant)
    IN  [smallProject |-> IF maxMW = NoNum THEN "null" ELSE Bool3(maxMW < 1),
         earlyConstruction |->
             IF constructionDate = NoNum THEN "null" ELSE Bool3(constructionDate < jan29_2023),
         prevailingWage |-> wage]

\* An OR that needs every path to be known before it says true.
Eligible_NullFirst(e) ==
    IF e.smallProject = "null" \/ e.earlyConstruction = "null" \/ e.prevailingWage = "null"
    THEN "null"
    ELSE IF e.smallProject = "true" \/ e.earlyConstruction = "true"
            \/ e.prevailingWage = "true"
    THEN "true"
    ELSE "false"

\* part_005:65-69
Eligible(e) ==
    IF e.smallProject = "true" \/ e.earlyConstruction = "true" \/ e.prevailingWage = "true"
    THEN "true"
    ELSE IF e.smallProject = "false" /\ e.earlyConstruction = "false"
            /\ e.prevailingWage = "false"
    THEN "false"
    ELSE "null"

\* An AND in which unknown hides a known false.
Overall_NullFirst(steelIronCompliant, manufacturedProductsCompliant, eligible) ==
    IF steelIronCompliant = "null" \/ manufacturedProductsCompliant = "null"
       \/ eligible = "null"
    THEN "null"
    ELSE IF steelIronCompliant = "false" \/ manufacturedProductsCompliant = "false"
            \/ eligible = "false"
    THEN "false"
    ELSE "true"

\* part_005:111-115
Overall(steelIronCompliant, manufacturedProductsCompliant, eligible) ==
    IF steelIronCompliant = "false" \/ manufacturedProductsCompliant = "false"
       \/ eligible = "false"
    THEN "false"
    ELSE IF steelIronCompliant = "null" \/ manufacturedProductsCompliant = "null"
            \/ eligible = "null"
    THEN "null"
    ELSE "true"

\* A percentage that is computed although part of the cost is of unknown
\* origin.
DomesticPct5_IgnoreUnknown(total, domestic, unknown) ==
    IF total > 0 THEN PctRound(domestic, total) ELSE NoNum

\* steelPct / manufacturedPct of part_005:100-106.
DomesticPct5(total, domestic, unknown) ==
    IF total > 0
    THEN (IF unknown > 0 THEN NoNum ELSE PctRound(domestic, total))
    ELSE NoNum

\* The code before and after the loop of part_005 (51-69, 100-147).
Result5(a, cfg, year) ==
    LET requiredManufactured == getRequiredManufacturedDomesticPercent(year)
        eligibility == Eligibility(cfg)
        eligible == Eligible(eligibility)
        steelPct ==
            DomesticPct5(a.steel_total, a.steel_domestic_total, a.steel_unknown_total)
        manufacturedPct ==
            DomesticPct5(a.manufactured_total, a.manufactured_domestic_total,
                         a.manufactured_unknown_total)
        steelIronCompliant ==
            IF steelPct = NoNum THEN "null" ELSE Bool3(steelPct >= 100)
        manufacturedProductsCompliant ==
            IF manufacturedPct = NoNum THEN "null"
            ELSE Bool3(manufacturedPct >= requiredManufactured)
    IN  [inputs |-> [installationYear |-> year,
                     requiredManufacturedDomesticPercent |-> requiredManufactured,
                     maxNetOutputMW |-> parseNumberish(cfg.maxNetOutputMW),
                     constructionStartDate |-> parseDateish(cfg.constructionStartDate),
                     prevailingWageCompliant |-> parseBooleanish(cfg.prevailingWageCompliant)],
         totals |-> [steel_total |-> Fixed2(a.steel_total),
                     steel_domestic_total |-> Fixed2(a.steel_domestic_total),
                     steel_unknown_total |-> Fixed2(a.steel_unknown_total),
                     manufactured_total |-> Fixed2(a.manufactured_total),
                     manufactured_domestic_total |-> Fixed2(a.manufactured_domestic_total),
                     manufactured_unknown_total |-> Fixed2(a.manufactured_unknown_total)],
         percentages |-> [steel_domestic_percent |-> steelPct,
                          manufactured_domestic_percent |-> manufacturedPct],
         compliance |-> [steelIronCompliant |-> steelIronCompliant,
                         manufacturedProductsCompliant |-> manufacturedProductsCompliant,
                         projectEligible |-> eligible,
                         feocCompliant |->
                             Overall(steelIronCompliant, manufacturedProductsCompliant, eligible)],
         eligibility |-> [eligible |-> eligible, reasons |-> eligibility]]

\* ------------------------------------------------------------------------
\* buildComparison (compare.js; its two versions are materialsCatalog.js
\* 84-159, without is_domestic, and 161-245, with is_domestic)
\* ------------------------------------------------------------------------
MaxRows == 2

Versions == {"pricing", "domestic"}

Tri == {"true", "false", "null"}

\* prisma.part.findUnique / findFirst found nothing.
NoPart == [found |-> FALSE, unitPrice |-> NoNum, originCountry |-> "", isDomestic |-> "false"]

\* lookupMaterial found nothing (or was not called).
NoMaterial == [found |-> FALSE, unitPrice |-> NoNum, isDomestic |-> "null"]

\* The catalog parts a lookup can return; price 10 when the part is priced.
Parts ==
    {NoPart} \cup [found : {TRUE}, unitPrice : {NoNum, 10},
                   originCountry : {"", "UNKNOWN", "US", "CN"},
                   isDomestic : {"true", "false"}]

\* The materials entries a lookup can return, priced `p` when priced.
Materials(p) ==
    {NoMaterial} \cup [found : {TRUE}, unitPrice : {NoNum, p}, isDomestic : Tri]

\* What the lookups of one row give: whether the row has a name, whether the
\* mapping table maps it to a SKU, the part found and the three materials
\* entries.  A part found by the mapped SKU has that SKU, so the materials
\* entry of its SKU is the one of the mapped SKU; a lookup that is not made
\* gives nothing.
Sources ==
    {s \in [named : BOOLEAN, mapped : BOOLEAN, quantity : {NoNum, 2},
            part : Parts, materialFromName : Materials(40),
            materialFromMapped : Materials(20),
            materialFromPartSku : Materials(20) \cup Materials(30)] :
        /\ ~s.named => s.materialFromName = NoMaterial
        /\ (~s.named /\ ~s.mapped) => s.part = NoPart
        /\ ~s.mapped => s.materialFromMapped = NoMaterial
        /\ ~s.part.found => s.materialFromPartSku = NoMaterial
        /\ (s.mapped /\ s.part.found) => s.materialFromPartSku = s.materialFromMapped
        /\ (~s.mapped /\ s.part.found) => s.materialFromPartSku \in Materials(30)}

\* A named row that nothing matches.
UnmatchedRow ==
    [named |-> TRUE, mapped |-> FALSE, quantity |-> 2, part |-> NoPart,
     materialFromName |-> NoMaterial, materialFromMapped |-> NoMaterial,
     materialFromPartSku |-> NoMaterial]

PartUS == [found |-> TRUE, unitPrice |-> 10, originCountry |-> "US", isDomestic |-> "true"]

PartCN == [found |-> TRUE, unitPrice |-> 10, originCountry |-> "CN", isDomestic |-> "false"]

\* The rows of the lists the loop is run on.
SampleRows ==
    {UnmatchedRow,
     [UnmatchedRow EXCEPT !.quantity = NoNum],
     [UnmatchedRow EXCEPT !.named = FALSE],
     [UnmatchedRow EXCEPT !.part = PartUS],
     [UnmatchedRow EXCEPT !.part = PartCN, !.quantity = NoNum],
     [UnmatchedRow EXCEPT !.mapped = TRUE, !.part = PartCN],
     [UnmatchedRow EXCEPT !.part = [PartCN EXCEPT !.originCountry = "UNKNOWN"]],
     [UnmatchedRow EXCEPT
        !.materialFromName = [found |-> TRUE, unitPrice |-> 40, isDomestic |-> "true"]],
     [UnmatchedRow EXCEPT
        !.materialFromName = [found |-> TRUE, unitPrice |-> 40, isDomestic |-> "null"]],
     [UnmatchedRow EXCEPT
        !.mapped = TRUE,
        !.materialFromMapped = [found |-> TRUE, unitPrice |-> 20, isDomestic |-> "false"]]}

\* materialsCatalog.js:58
MaterialOrigin(domestic) ==
    IF domestic = "true" THEN "US" ELSE IF domestic = "false" THEN "NONUS" ELSE ""

\* materialsCatalog.js:167-171
isKnownOrigin(originCountry) ==
    IF originCountry = "" THEN FALSE
    ELSE toUpperCase(originCountry) # "UNKNOWN"

\* `a || b` on materials entries.
FirstFound(a, b) == IF a.found THEN a ELSE b

\* materialFromMapped || materialFromPartSku || materialFromName
\* (materialsCatalog.js:125 and 206)
PickMaterial(s) ==
    FirstFound(s.materialFromMapped,
               FirstFound(s.materialFromPartSku, s.materialFromName))

\* `a ?? b` on tri-state values.
TriCoalesce(a, b) == IF a = "null" THEN b ELSE a

\* `a ?? b` on origins.
OriginCoalesce(a, b) == IF a = "" THEN b ELSE a

\* The part's flag and origin are taken before the materials entry's.
resolveDomestic_PartFirst(part, material) ==
    LET known == part.found /\ isKnownOrigin(part.originCountry)
    IN  [is_domestic |->
             TriCoalesce(IF known THEN part.isDomestic ELSE "null", material.isDomestic),
         origin_country |->
             OriginCoalesce(IF known THEN part.originCountry ELSE "",
                            MaterialOrigin(material.isDomestic))]

\* partDomestic, isDomestic and originCountry of materialsCatalog.js:214-216.
resolveDomestic(part, material) ==
    LET partDomestic ==
            IF part.found /\ isKnownOrigin(part.originCountry)
            THEN part.isDomestic ELSE "null"
    IN  [is_domestic |-> TriCoalesce(TriCoalesce(material.isDomestic, partDomestic), "null"),
         origin_country |->
             OriginCoalesce(MaterialOrigin(material.isDomestic),
                            IF isKnownOrigin(part.originCountry)
                            THEN part.originCountry ELSE "")]

\* A missing price or quantity counts as 0 in the product.
LineTotal_NullIsZero(unitPrice, qty) ==
    (IF unitPrice = NoNum THEN 0 ELSE unitPrice) * (IF qty = NoNum THEN 0 ELSE qty)

\* lineTotal of materialsCatalog.js:129 and 210.
LineTotal(unitPrice, qty) ==
    IF unitPrice # NoNum /\ qty # NoNum THEN unitPrice * qty ELSE NoNum

\* The body of the loop: the row pushed to `out` for the lookups `s` of one
\* component.  matched_sku is given by the record that supplies it.  The
\* pricing version has no is_domestic field.
ResolveRow(ver, s) ==
    LET part == s.part
        material == PickMaterial(s)
        unitPrice == Coalesce(part.unitPrice, material.unitPrice)
        qty == s.quantity
        lineTotal == LineTotal(unitPrice, qty)
        dom == resolveDomestic(part, material)
    IN  [quantity |-> qty,
         matched_sku |-> IF part.found THEN "part"
                         ELSE IF material.found THEN "material" ELSE "",
         unit_price |-> unitPrice,
         line_total |-> lineTotal,
         is_domestic |-> IF ver = "domestic" THEN dom.is_domestic ELSE "null",
         origin_country |->
             IF ver = "domestic" THEN dom.origin_country
             ELSE OriginCoalesce(part.originCountry,
                                 MaterialOrigin(material.isDomestic))]

NoRow ==
    [quantity |-> NoNum, matched_sku |-> "", unit_price |-> NoNum,
     line_total |-> NoNum, is_domestic |-> "null", origin_country |-> ""]

NoSummary ==
    [total |-> 0, domestic_total |-> 0, non_domestic_total |-> 0, unknown_total |-> 0]

\* `sum` of materialsCatalog.js:147-148 and 232-233, taken row by row: a row
\* counts when the predicate holds and its line_total is truthy.
SumAdd(sofar, pred, x) ==
    IF pred /\ x.line_total # NoNum /\ x.line_total # 0 THEN sofar + x.line_total ELSE sofar

\* The summary after one more row (materialsCatalog.js:150-156, 235-242).
Summarize(ver, sm, x) ==
    IF ver = "pricing"
    THEN [sm EXCEPT !.total = SumAdd(sm.total, TRUE, x)]
    ELSE [sm EXCEPT
            !.domestic_total = SumAdd(sm.domestic_total, x.is_domestic = "true", x),
            !.non_domestic_total = SumAdd(sm.non_domestic_total, x.is_domestic = "false", x),
            !.unknown_total = SumAdd(sm.unknown_total, x.is_domestic = "null", x)]

\* The lookups the loop makes for a row (materialsCatalog.js:110-124,
\* 191-205).
Lookups == {"findUnique", "findFirst", "lookupMaterial"}

Invoked(which, s) ==
    CASE which = "findUnique" -> s.mapped
      [] which = "findFirst" -> ~s.mapped /\ s.named
      [] which = "lookupMaterial" -> s.named \/ s.mapped \/ s.part.found

\* ------------------------------------------------------------------------
\* Approved vendor list (part_003:63-108) and GET /avl/lookup
\* (metrics.js:553-565).  Strings are sequences of characters.
\* ------------------------------------------------------------------------
MaxModelLen == 2

Chars == {"a", "A", "b", "*", " "}

\* The model strings of the requests.
RECURSIVE StringsUpTo(_)
StringsUpTo(k) ==
    IF k = 0 THEN {<<>>}
    ELSE LET shorter == StringsUpTo(k - 1)
         IN  shorter \cup {Append(s, c) : s \in shorter, c \in Chars}

Models == StringsUpTo(MaxModelLen)

\* The manufacturer strings of the requests.
Manufacturers == {<<>>, <<" ">>, <<"m">>, <<"M">>, <<"n">>, <<" ", "m">>}

\* The rows of the AVL file, before normalizeRows.
FileRows ==
    << [manufacturer |-> <<"M">>, model_pattern |-> <<"*">>, approved_sku |-> "any"],
       [manufacturer |-> <<"m", " ">>, model_pattern |-> <<"a", "*">>, approved_sku |-> "prefix"],
       [manufacturer |-> <<"m">>, model_pattern |-> <<"A", "b">>, approved_sku |-> "exact"],
       [manufacturer |-> <<"n">>, model_pattern |-> <<" ", "a", "b">>, approved_sku |-> "other"],
       [manufacturer |-> <<"n">>, model_pattern |-> <<"*", "a">>, approved_sku |-> "star-first"],
       [manufacturer |-> <<"m">>, model_pattern |-> <<" ">>, approved_sku |-> "no-pattern"] >>

\* The file that holds the rows of FileRows whose index is in `keep`.
FileWith(keep) ==
    LET marked == [i \in 1..Len(FileRows) |->
                     [FileRows[i] EXCEPT !.approved_sku = IF i \in keep THEN @ ELSE ""]]
    IN  SelectSeq(marked, LAMBDA r : r.approved_sku # "")

\* One character of String.prototype.toLowerCase.
Lower(c) == IF c = "A" THEN "a" ELSE IF c = "M" THEN "m" ELSE c

toLowerCase(s) == [i \in DOMAIN s |-> Lower(s[i])]

RECURSIVE trim(_)
trim(s) ==
    IF s = <<>> THEN s
    ELSE IF Head(s) = " " THEN trim(Tail(s))
    ELSE IF s[Len(s)] = " " THEN trim(SubSeq(s, 1, Len(s) - 1))
    ELSE s

endsWith(s, c) == Len(s) > 0 /\ s[Len(s)] = c

startsWith(s, base) == Len(base) <= Len(s) /\ SubSeq(s, 1, Len(base)) = base

\* part_003:74-82
normalizeRows(rows) ==
    LET trimmed == [i \in DOMAIN rows |->
                      [manufacturer |-> trim(rows[i].manufacturer),
                       model_pattern |-> trim(rows[i].model_pattern),
                       approved_sku |-> rows[i].approved_sku]]
    IN  SelectSeq(trimmed, LAMBDA r : r.manufacturer # <<>> /\ r.model_pattern # <<>>)

\* The comparisons are made on the strings as they are.
matchesPattern_CaseSensitive(model, pattern) ==
    IF pattern = <<>> \/ pattern = <<"*">> THEN TRUE
    ELSE IF endsWith(pattern, "*")
         THEN startsWith(model, SubSeq(pattern, 1, Len(pattern) - 1))
    ELSE model = pattern

\* part_003:89-97
matchesPattern(model, pattern) ==
    IF pattern = <<>> \/ pattern = <<"*">> THEN TRUE
    ELSE IF endsWith(pattern, "*")
         THEN startsWith(toLowerCase(model),
                         toLowerCase(SubSeq(pattern, 1, Len(pattern) - 1)))
    ELSE toLowerCase(model) = toLowerCase(pattern)

\* part_003:99-106, on the rows getAVL() returns.
lookup(rows, manufacturer, model) ==
    LET mfg == toLowerCase(manufacturer)
        mdl == trim(model)
        candidates == SelectSeq(rows, LAMBDA r : toLowerCase(r.manufacturer) = mfg)
    IN  SelectSeq(candidates, LAMBDA r : matchesPattern(mdl, r.model_pattern))

NoResponse == [status |-> 0, param |-> "", matches |-> <<>>]

\* The response of GET /avl/lookup to the query parameters (metrics.js:554-565).
AvlLookupResponse(rows, q) ==
    LET manufacturer == trim(q.manufacturer)
        model == trim(q.model)
    IN  IF manufacturer = <<>>
        THEN [status |-> 400, param |-> "manufacturer", matches |-> <<>>]
        ELSE IF model = <<>>
        THEN [status |-> 400, param |-> "model", matches |-> <<>>]
        ELSE [status |-> 200, param |-> "", matches |-> lookup(rows, manufacturer, model)]

\* ------------------------------------------------------------------------
\* The Aurora list endpoints and their cache (metrics.js:116-129, 452-549).
\* Time is counted in units of 10 s.
\* ------------------------------------------------------------------------
MaxTime == 4

MaxRequests == 3

\* ttlMs = 30_000
ListTtl == 3

\* new LruTtl(200)
LruMax == 200

\* rateLimit(100, 60_000)
AuroraRateMax == 100

\* The longest burst: one request more than the limit lets through.
MaxBurst == 101

AuroraRateWindow == 6

\* The cache keys of two of the list endpoints with the default limit and
\* no cursor.
ListKeys == {"modules:50:", "inverters:50:"}

\* The handlers Express runs for GET of a list endpoint, in the order of
\* their registration: the route (452-486), the rate limit mounted on
\* /aurora (489), the cache check (517-534), the middleware that patches
\* res.json (540-549).
Stack == <<"listRoute", "rateLimit", "cacheCheck", "cachePatch">>

\* Position of `key` in the Map, 0 if it has no entry.
RECURSIVE IndexOf(_, _)
IndexOf(map, key) ==
    IF map = <<>> THEN 0
    ELSE IF map[Len(map)].key = key THEN Len(map)
    ELSE IndexOf(SubSeq(map, 1, Len(map) - 1), key)

\* Map.delete
MapDelete(map, key) == SelectSeq(map, LAMBDA e : e.key # key)

\* Map.set: a new key goes last, an existing key keeps its place.
MapSet(map, e) ==
    IF IndexOf(map, e.key) = 0 THEN Append(map, e)
    ELSE [map EXCEPT ![IndexOf(map, e.key)] = e]

NoData == 0

\* An expired entry is still returned.
LruGet_KeepsExpired(map, key, t) ==
    LET i == IndexOf(map, key)
    IN  IF i = 0 THEN [data |-> NoData, map |-> map]
        ELSE [data |-> map[i].data, map |-> Append(MapDelete(map, key), map[i])]

\* LruTtl.get (metrics.js:495-501): the data returned and the Map after it.
LruGet(map, key, t) ==
    LET i == IndexOf(map, key)
    IN  IF i = 0 THEN [data |-> NoData, map |-> map]
        ELSE IF t > map[i].expires
             THEN [data |-> NoData, map |-> MapDelete(map, key)]
        ELSE [data |-> map[i].data, map |-> Append(MapDelete(map, key), map[i])]

\* LruTtl.set of an instance built with `max` (metrics.js:503-509)
LruSetMax(map, key, data, ttl, t, max) ==
    LET room == IF Len(map) >= max /\ map # <<>> THEN Tail(map) ELSE map
    IN  MapSet(room, [key |-> key, data |-> data, expires |-> t + ttl])

\* cache.set of the instance new LruTtl(200)
LruSet(map, key, data, ttl, t) == LruSetMax(map, key, data, ttl, t, LruMax)

\* The count restarts at the reset time already.
RateCount_EarlyReset(rec, t, window) ==
    LET cur == IF t >= rec.reset THEN [count |-> 0, reset |-> t + window] ELSE rec
    IN  [cur EXCEPT !.count = @ + 1]

\* The bucket of rlStore after one more request at time t (120-124).
RateCount(rec, t, window) ==
    LET cur == IF t > rec.reset THEN [count |-> 0, reset |-> t + window] ELSE rec
    IN  [cur EXCEPT !.count = @ + 1]

NoListResp ==
    [status |-> 0, source |-> "", body |-> NoData, key |-> "", at |-> 0,
     prevAt |-> -1, prevBody |-> NoData]

NoFresh == [at |-> -1, body |-> NoData]

\* ------------------------------------------------------------------------
\* GET /compare/projects and its cache (metrics.js:793-895)
\* ------------------------------------------------------------------------
\* expires: Date.now() + 30_000
CompareTtl == 3

\* The cache keys of two pages: cmp:projects:p<page>:pp<per_page>:dpp<n>.
CompareKeys == {"cmp:projects:p1:pp10:dpp1", "cmp:projects:p2:pp10:dpp1"}

\* The requests that can be under way at the same time.
Slots == {1, 2}

\* compareCache.get(key) gave undefined.
NoRec == [payload |-> NoData, expires |-> -1]

\* The stored payload is served up to and including its expiry time.
CacheFresh_Inclusive(rec, t) == rec.payload # NoData /\ rec.expires >= t

\* cacheRec && cacheRec.expires > Date.now()   (metrics.js:804)
CacheFresh(rec, t) == rec.payload # NoData /\ rec.expires > t

NoCompareReq ==
    [pc |-> "idle", key |-> "", status |-> 0, header |-> "", payload |-> NoData,
     checkedAt |-> 0, storedBefore |-> -1, calledAurora |-> FALSE]

\* ------------------------------------------------------------------------
\* classifyFeocBucket of both modules on the same item
\* ------------------------------------------------------------------------
\* Names and types: every keyword of either pattern, and words of no pattern
\* ("railing" holds "rail" but not as a whole word).
ClassifyWords == SteelIronWords4 \cup SteelIronWords5 \cup {"", "panel", "railing"}

NoBuckets == [done |-> FALSE, prohibited |-> "", domestic |-> ""]

\* ------------------------------------------------------------------------
\* evaluateFeoc as one function of its argument and of the clock
\* ------------------------------------------------------------------------
MaxTwiceItems == 1

LastClockYear == 2027

\* A year of the clock instead of the given one.
YearAt_ClockOnly(c, clockYear) == clockYear

\* part_004:70 and part_005:51
YearAt(c, clockYear) == Coalesce(parseNumberish(c.installationYear), clockYear)

RECURSIVE Fold4(_, _, _, _)
\* The loop of part_004 over the whole list.
Fold4(a, parts, dom, list) ==
    IF list = <<>> THEN [acc |-> a, parts |-> parts]
    ELSE LET r == LoopBody4(a, parts, dom, Head(list))
         IN  Fold4(r.acc, r.parts, r.dom, Tail(list))

RECURSIVE Fold5(_, _, _)
\* The loop of part_005 over the whole list.
Fold5(a, frn, list) ==
    IF list = <<>> THEN a
    ELSE LET r == LoopBody5(a, frn, Head(list))
         IN  Fold5(r.acc, r.frn, Tail(list))

NoRest == [steel |-> 0, manufactured |-> 0]

\* evaluateFeoc of the module `which` on a list, called in year clockYear.
Evaluate(which, list, c, clockYear) ==
    IF which = "prohibited"
    THEN LET f == Fold4(Acc4Init, <<>>, NoRest, list)
         IN  Result4(f.acc, f.parts, YearAt(c, clockYear))
    ELSE Result5(Fold5(Acc5Init, NoRest, list), c, YearAt(c, clockYear))

\* The items of the repeated calls: each bucket word, a domestic and a
\* prohibited origin, with and without the domestic flag.
TwiceItems ==
    {i \in CoreItems : /\ i.line_total = Num(1000)
                       /\ i.origin_country \in {"US", "CN"}
                       /\ i.is_domestic \in {"<absent>", "<true>"}}

NoCall == [impl |-> "prohibited", list |-> <<>>, cfg |-> 0]

\* ------------------------------------------------------------------------
\* The Aurora client: circuit breaker and retry (part_003)
\* ------------------------------------------------------------------------
MaxCalls == 6

MaxLiveCalls == 3

\* process.env.AURORA_MAX_FAILURES || 5
MAX_FAILURES == 5

\* process.env.AURORA_COOLDOWN_MS || 30000, in units of 10 s
COOL_DOWN_MS == 3

\* process.env.AURORA_MAX_RETRIES || 2
MAX_RETRIES == 2

\* The errors fn rejects with: a timeout (no response), a 503 and a 404.
\* status 0 stands for err.response being undefined.
Timeout == [code |-> "ECONNABORTED", status |-> 0]

Http(status) ==
    [code |-> IF status >= 500 THEN "ERR_BAD_RESPONSE" ELSE "ERR_BAD_REQUEST",
     status |-> status]

Errors == {Timeout, Http(503), Http(404)}

NoErr == [code |-> "", status |-> -1]

CircuitOpenErr == [code |-> "AURORA_CIRCUIT_OPEN", status |-> 0]

\* Every error is retried.
isRetryable_Always(err) == TRUE

\* part_003:193-196
isRetryable(err) ==
    err.code = "ECONNABORTED" \/ err.status = 0 \/ err.status >= 500

\* The cooldown ends one unit early.
CircuitOpen_Short(b, t) == b.open /\ t - b.openedAt < COOL_DOWN_MS - 1

\* breaker.open && now - breaker.openedAt < COOL_DOWN_MS   (part_003:199)
CircuitOpen(b, t) == b.open /\ t - b.openedAt < COOL_DOWN_MS

\* breaker.failures = 0; breaker.open = false;   (part_003:211)
OnSuccess(b) == [b EXCEPT !.failures = 0, !.open = FALSE]

\* The breaker opens one failure early.
OnFailure_OpensEarly(b, t) ==
    IF b.failures + 1 >= MAX_FAILURES - 1
    THEN [failures |-> b.failures + 1, open |-> TRUE, openedAt |-> t]
    ELSE [b EXCEPT !.failures = b.failures + 1]

\* breaker.failures++; if (breaker.failures >= MAX_FAILURES) { ... }
\* (part_003:224-225)
OnFailure(b, t) ==
    IF b.failures + 1 >= MAX_FAILURES
    THEN [failures |-> b.failures + 1, open |-> TRUE, openedAt |-> t]
    ELSE [b EXCEPT !.failures = b.failures + 1]

NoCallRec == [pc |-> "idle", attempt |-> 0, invoked |-> 0, lastErr |-> NoErr]

NoDone == [seq |-> 0, slot |-> 0, outcome |-> "", invoked |-> 0, attempt |-> 0,
           err |-> NoErr, res |-> 0]

\* ------------------------------------------------------------------------
\* rateLimit(max, windowMs) (metrics.js:116-129)
\* ------------------------------------------------------------------------
MaxRateRequests == 6

\* The limiter followed is rateLimit(RateMax, RateWindow), the window in
\* units of 10 s.
RateMax == 2

RateWindow == 2

\* `${req.ip}:${req.baseUrl || ''}` for two clients of the /compare mount
RateKeys == {"10.0.0.1:/compare", "10.0.0.2:/compare"}

\* rlStore.get(key) gave undefined.
NoRl == [count |-> -1, reset |-> -1]

\* rlStore.get(key) || { count: 0, reset: now + windowMs }   (metrics.js:122)
RateRec(store, key, t, window) ==
    IF store[key] = NoRl THEN [count |-> 0, reset |-> t + window] ELSE store[key]

NoWindow == [start |-> -1, passed |-> 0]

NoRateResp == [key |-> "", status |-> 0, next |-> FALSE, at |-> 0, newWindow |-> FALSE]

\* ------------------------------------------------------------------------
\* An LruTtl instance of small capacity (metrics.js:493-511)
\* ------------------------------------------------------------------------
MaxOps == 4

\* The instance followed is new LruTtl(LruCap).
LruCap == 2

LruKeys == {"a", "b", "c"}

LruData == {1, 2}

\* ttlMs of a set, in units of 10 s
LruTtls == {1, 3}

Keys(map) == {map[i].key : i \in 1..Len(map)}

NoLatest == [given |-> FALSE, data |-> NoData, expires |-> 0, evicted |-> FALSE]

NoOp == [op |-> "", key |-> "", data |-> NoData]

\* ------------------------------------------------------------------------
\* The calls as a state machine
\* ------------------------------------------------------------------------
VARIABLES
    impl,       \* which module's evaluateFeoc is called: "prohibited" | "domestic"
    cfg,        \* the configuration fields of the argument object
    clock,      \* new Date().getFullYear() at the time of the call
    limit,      \* the most items the list of this call may hold
    pc,         \* "loop" while iterating, "done" once the result is returned
    n,          \* number of items the loop has taken so far
    rawTotal,   \* raw.line_total ?? raw.lineTotal of the latest iteration
    acc,        \* the accumulator `acc` of the running implementation
    feocParts,  \* part_004's feocParts
    rest,       \* per bucket, the cost of the origin class the implementation
                \* keeps no total of (domestic in part_004, foreign in part_005)
    result,     \* the returned object
    items,      \* what kind of value the `items` binding holds
    route       \* the POST /feoc/evaluate request the call serves, if any

evalVars == <<impl, cfg, clock, limit, pc, n, rawTotal, acc, feocParts, rest, result,
              items, route>>

\* One call of buildComparison.
VARIABLES
    version,    \* which version of compare.js runs: "pricing" | "domestic"
    cpc,        \* "loop" while iterating, then "returned" or "thrown"
    outLen,     \* out.length
    src,        \* what the lookups of the latest row gave
    row,        \* the row pushed to `out` last
    summary,    \* the sums of `summary` over the rows of `out` so far
    failed      \* the lookup that threw, "none" if none did

compareVars == <<version, cpc, outLen, src, row, summary, failed>>

\* One AVL lookup.
VARIABLES
    avl,        \* the rows of the AVL cache (getAVL())
    apc,        \* "request" before the lookup, "done" after it
    viaRoute,   \* TRUE for GET /avl/lookup, FALSE for a call of lookup()
    query,      \* the manufacturer and the model asked for
    resp        \* the response / the returned list

avlVars == <<avl, apc, viaRoute, query, resp>>

\* The server's Aurora list endpoints.
VARIABLES
    now,        \* Date.now(), in units of 10 s
    upstream,   \* the list the Aurora API returns at present
    lreq,       \* the cache key of the request being handled
    layer,      \* the handler of Stack the request has come to, 0 if none
    patched,    \* res.json of the request has been replaced (547)
    cache,      \* cache.map of the LruTtl, in the Map's order
    rl,         \* the client's bucket of rlStore for /aurora
    served,     \* number of requests that have come in
    lresp,      \* the response to the latest request
    lastFresh   \* per key, time and body of the last answer built from Aurora

listVars == <<now, upstream, lreq, layer, patched, cache, rl, served, lresp, lastFresh>>

\* The server's GET /compare/projects.
VARIABLES
    compareCache,   \* app.locals.compareCache: per key, the record stored
    creq,           \* per slot, the request of that slot and its response
    cserved,        \* number of requests that have come in
    lastStored      \* per key, the time of the latest compareCache.set

compareCacheVars == <<compareCache, creq, cserved, lastStored>>

\* One (name, type) pair given to both classifyFeocBucket functions.
VARIABLES
    citem,      \* the item: its lower-cased name and type
    buckets     \* the bucket each module's classifyFeocBucket returned

classifyVars == <<citem, buckets>>

\* The same evaluateFeoc call made twice.
VARIABLES
    tcall,      \* the argument object of both calls and the module called
    tclock,     \* the calendar year new Date().getFullYear() returns now
    results     \* the calls made so far: the year of the call and its result

twiceVars == <<tcall, tclock, results>>

\* The Aurora client's circuit breaker and the callWithRetry calls in flight.
VARIABLES
    breaker,    \* { failures, open, openedAt }
    calls,      \* per slot, the callWithRetry call running there
    started,    \* number of callWithRetry calls made
    lastDone,   \* the call that ended last and how it ended
    hist        \* failed calls since the last successful one; has it opened

breakerVars == <<breaker, calls, started, lastDone, hist>>

\* One rateLimit(max, windowMs) middleware and the requests that reach it.
VARIABLES
    rlStore,    \* per key, the record { count, reset } or none
    windows,    \* per key, when its current window began and how many requests
                \* of that window were passed on
    rlast,      \* the last request: its key and what the middleware did with it
    requests    \* number of requests that have reached the middleware

rateVars == <<rlStore, windows, rlast, requests>>

\* One LruTtl instance under get and set.
VARIABLES
    lru,        \* this.map, in insertion order
    latest,     \* per key, the latest set(key, ...): its data and expiry time,
                \* and whether the entry has been evicted since
    lout,       \* the last operation and what it returned
    ops         \* number of operations made

lruVars == <<lru, latest, lout, ops>>

vars == <<evalVars, compareVars, avlVars, listVars, compareCacheVars, classifyVars, twiceVars, breakerVars, rateVars, lruVars>>

nonEvalVars == <<compareVars, avlVars, listVars, compareCacheVars, classifyVars, twiceVars, breakerVars, rateVars, lruVars>>

nonCompareVars == <<evalVars, avlVars, listVars, compareCacheVars, classifyVars, twiceVars, breakerVars, rateVars, lruVars>>

nonAvlVars == <<evalVars, compareVars, listVars, compareCacheVars, classifyVars, twiceVars, breakerVars, rateVars, lruVars>>

nonListVars == <<evalVars, compareVars, avlVars, compareCacheVars, classifyVars, twiceVars, breakerVars, rateVars, lruVars>>

nonCompareCacheVars == <<evalVars, compareVars, avlVars, listVars, classifyVars, twiceVars, breakerVars, rateVars, lruVars>>

nonClassifyVars == <<evalVars, compareVars, avlVars, listVars, compareCacheVars, twiceVars, breakerVars, rateVars, lruVars>>

nonTwiceVars == <<evalVars, compareVars, avlVars, listVars, compareCacheVars, classifyVars, breakerVars, rateVars, lruVars>>

nonBreakerVars == <<evalVars, compareVars, avlVars, listVars, compareCacheVars, classifyVars, twiceVars, rateVars, lruVars>>

nonRateVars == <<evalVars, compareVars, avlVars, listVars, compareCacheVars, classifyVars, twiceVars, breakerVars, lruVars>>

nonLruVars == <<evalVars, compareVars, avlVars, listVars, compareCacheVars, classifyVars, twiceVars, breakerVars, rateVars>>

\* No request for a list endpoint has come in.
ListIdle ==
    /\ now = 0
    /\ upstream = 1
    /\ lreq = ""
    /\ layer = 0
    /\ patched = FALSE
    /\ cache = <<>>
    /\ rl = [count |-> 0, reset |-> AuroraRateWindow]
    /\ served = 0
    /\ lresp = NoListResp
    /\ lastFresh = [k \in ListKeys |-> NoFresh]

\* No call of buildComparison is made.
CompareIdle ==
    /\ version = "pricing"
    /\ cpc = "idle"
    /\ outLen = 0
    /\ src = UnmatchedRow
    /\ row = NoRow
    /\ summary = NoSummary
    /\ failed = "none"

NoResult == [pending |-> TRUE]

NoCfg == [installationYear |-> Absent, maxNetOutputMW |-> Absent,
          constructionStartDate |-> Absent, prevailingWageCompliant |-> "<absent>"]

\* The values `items` is given as: a list of up to `limit` items, the
\* literal [], undefined, null, a plain object, a string.
ItemKinds == {"array", "empty", "absent", "null", "object", "string"}

\* Whatever `items` holds is iterated as if it were a list.
ArrayOrEmpty_Unchecked(kind) == IF kind = "empty" THEN "empty" ELSE "array"

\* Array.isArray(items) ? items : []   (part_004:88, part_005:80 and
\* metrics.js:1009)
ArrayOrEmpty(kind) == IF kind \in {"array", "empty"} THEN kind ELSE "empty"

\* `a ?? b` on raw values.
RawCoalesce(a, b) == IF a = Absent THEN b ELSE a

\* The `project` object of a request body, with the fields the route reads.
EmptyProject ==
    [given |-> FALSE, installationYear |-> Absent, year |-> Absent,
     maxNetOutput |-> Absent, maxNetOutputMW |-> Absent, maxNetOutputMw |-> Absent,
     constructionStartDate |-> Absent, prevailingWageCompliant |-> "<absent>"]

\* req.body?.project || {}
ProjectOrEmpty(p) == IF p.given THEN p ELSE EmptyProject

\* No request: evaluateFeoc is called directly.
NoRoute ==
    [via |-> FALSE, status |-> 0,
     body |-> [items |-> "absent", top |-> NoCfg, project |-> EmptyProject]]

\* The argument object the route builds from the body (metrics.js:1010-1020).
RouteCfg(body, thisYear) ==
    LET project == ProjectOrEmpty(body.project)
        year == RawCoalesce(project.installationYear,
                            RawCoalesce(project.year, Num(thisYear)))
    IN  [installationYear |-> year,
         maxNetOutputMW |->
             RawCoalesce(project.maxNetOutput,
                         RawCoalesce(project.maxNetOutputMW, project.maxNetOutputMw)),
         constructionStartDate |-> project.constructionStartDate,
         prevailingWageCompliant |-> project.prevailingWageCompliant]

\* res.json(result): the response goes out with status 200.
Respond(r) == IF r.via THEN [r EXCEPT !.status = 200] ELSE r

\* No AVL lookup is made.
AvlIdle ==
    /\ avl = <<>>
    /\ apc = "idle"
    /\ viaRoute = FALSE
    /\ query = [manufacturer |-> <<>>, model |-> <<>>]
    /\ resp = NoResponse

\* No evaluation is under way.
EvalIdle ==
    /\ impl = "prohibited"
    /\ cfg = NoCfg
    /\ clock = 2026
    /\ limit = 0
    /\ pc = "idle"
    /\ n = 0
    /\ rawTotal = Absent
    /\ feocParts = <<>>
    /\ rest = [steel |-> 0, manufactured |-> 0]
    /\ result = NoResult
    /\ acc = Acc4Init
    /\ items = "empty"
    /\ route = NoRoute

\* No request for /compare/projects has come in.
CompareCacheIdle ==
    /\ compareCache = [k \in CompareKeys |-> NoRec]
    /\ creq = [s \in Slots |-> NoCompareReq]
    /\ cserved = 0
    /\ lastStored = [k \in CompareKeys |-> -1]

\* No item has been classified.
ClassifyIdle ==
    /\ citem = [nt |-> <<"", "">>]
    /\ buckets = NoBuckets

\* No call is repeated.
TwiceIdle ==
    /\ tcall = NoCall
    /\ tclock = 2026
    /\ results = <<>>

\* makeAurora has built the client and no call has been made.
BreakerIdle ==
    /\ breaker = [failures |-> 0, open |-> FALSE, openedAt |-> 0]
    /\ calls = [s \in Slots |-> NoCallRec]
    /\ started = 0
    /\ lastDone = NoDone
    /\ hist = [streak |-> 0, opened |-> FALSE]

\* No request has reached the middleware.
RateIdle ==
    /\ rlStore = [k \in RateKeys |-> NoRl]
    /\ windows = [k \in RateKeys |-> NoWindow]
    /\ rlast = NoRateResp
    /\ requests = 0

\* The instance is empty.
LruIdle ==
    /\ lru = <<>>
    /\ latest = [k \in LruKeys |-> NoLatest]
    /\ lout = NoOp
    /\ ops = 0

\* Every component but `sub` is idle.
IdleExcept(sub) ==
    /\ IF sub = "eval" THEN TRUE ELSE EvalIdle
    /\ IF sub = "compare" THEN TRUE ELSE CompareIdle
    /\ IF sub = "avl" THEN TRUE ELSE AvlIdle
    /\ IF sub = "list" THEN TRUE ELSE ListIdle
    /\ IF sub = "compareCache" THEN TRUE ELSE CompareCacheIdle
    /\ IF sub = "classify" THEN TRUE ELSE ClassifyIdle
    /\ IF sub = "twice" THEN TRUE ELSE TwiceIdle
    /\ IF sub = "breaker" THEN TRUE ELSE BreakerIdle
    /\ IF sub = "rate" THEN TRUE ELSE RateIdle
    /\ IF sub = "lru" THEN TRUE ELSE LruIdle

\* part_004:70 and part_005:51
Year == YearAt(cfg, clock)

Start ==
    /\ n = 0
    /\ rawTotal = Absent
    /\ feocParts = <<>>
    /\ rest = [steel |-> 0, manufactured |-> 0]
    /\ result = NoResult
    /\ acc = IF impl = "prohibited" THEN Acc4Init ELSE Acc5Init
    /\ IdleExcept("eval")

\* A direct call of evaluateFeoc on a list.
DirectOnList ==
    /\ items = "array"
    /\ route = NoRoute

\* The eligibility inputs of the calls of Init: all absent, one path true,
\* all paths false.
EligSamples ==
    {[maxNetOutputMW |-> Absent, constructionStartDate |-> Absent,
      prevailingWageCompliant |-> "<absent>"],
     [maxNetOutputMW |-> Num(0), constructionStartDate |-> NumStr(20230130),
      prevailingWageCompliant |-> "<false>"],
     [maxNetOutputMW |-> Num(5), constructionStartDate |-> NumStr(20230130),
      prevailingWageCompliant |-> "<false>"]}

\* Calls whose item list is the subject: every item list up to MaxItems and
\* every year.  The clock is read only when installationYear does not parse,
\* so it varies only then.
Init ==
    /\ impl \in {"prohibited", "domestic"}
    /\ clock \in ClockYears
    /\ limit = MaxItems
    /\ \E y \in RawYears, e \in EligSamples :
         /\ parseNumberish(y) # NoNum => clock = 2026
         /\ impl = "prohibited" => e.maxNetOutputMW = Absent
         /\ cfg = [installationYear |-> y, maxNetOutputMW |-> e.maxNetOutputMW,
                   constructionStartDate |-> e.constructionStartDate,
                   prevailingWageCompliant |-> e.prevailingWageCompliant]
    /\ Start
    /\ pc = "loop"
    /\ DirectOnList

\* Calls whose configuration is the subject: every combination of the
\* eligibility inputs, on item lists up to MaxEligItems.
InitElig ==
    /\ impl \in {"prohibited", "domestic"}
    /\ clock = 2026
    /\ limit = MaxEligItems
    /\ \/ /\ impl = "prohibited"
          /\ cfg = [NoCfg EXCEPT !.installationYear = Num(2026)]
       \/ /\ impl = "domestic"
          /\ cfg \in [installationYear : {Num(2026)}, maxNetOutputMW : RawMW,
                      constructionStartDate : RawDates,
                      prevailingWageCompliant : RawWages]
    /\ Start
    /\ pc = "loop"
    /\ DirectOnList

\* One iteration of part_004's loop.
Loop4(raw) ==
    /\ impl = "prohibited"
    /\ pc = "loop"
    /\ ArrayOrEmpty(items) = "array"
    /\ n < limit
    /\ LET r == LoopBody4(acc, feocParts, rest, raw)
       IN  /\ acc' = r.acc
           /\ feocParts' = r.parts
           /\ rest' = r.dom
           /\ rawTotal' = raw.line_total
    /\ n' = n + 1
    /\ UNCHANGED <<impl, cfg, clock, limit, pc, result, items, route>>
    /\ UNCHANGED nonEvalVars

\* part_004 after the loop: the returned object.
Finish4 ==
    /\ impl = "prohibited"
    /\ pc = "loop"
    /\ result' = Result4(acc, feocParts, Year)
    /\ pc' = "done"
    /\ route' = Respond(route)
    /\ UNCHANGED <<impl, cfg, clock, limit, n, rawTotal, acc, feocParts, rest, items>>
    /\ UNCHANGED nonEvalVars

\* One iteration of part_005's loop.
Loop5(raw) ==
    /\ impl = "domestic"
    /\ pc = "loop"
    /\ ArrayOrEmpty(items) = "array"
    /\ n < limit
    /\ LET r == LoopBody5(acc, rest, raw)
       IN  /\ acc' = r.acc
           /\ rest' = r.frn
           /\ rawTotal' = raw.line_total
    /\ n' = n + 1
    /\ UNCHANGED <<impl, cfg, clock, limit, pc, feocParts, result, items, route>>
    /\ UNCHANGED nonEvalVars

\* part_005 after the loop: the returned object.
Finish5 ==
    /\ impl = "domestic"
    /\ pc = "loop"
    /\ result' = Result5(acc, cfg, Year)
    /\ pc' = "done"
    /\ route' = Respond(route)
    /\ UNCHANGED <<impl, cfg, clock, limit, n, rawTotal, acc, feocParts, rest, items>>
    /\ UNCHANGED nonEvalVars

Next ==
    \/ \E raw \in Items : Loop4(raw)
    \/ Finish4
    \/ \E raw \in Items : Loop5(raw)
    \/ Finish5

Spec == Init /\ [][Next]_vars

SpecElig == InitElig /\ [][Next]_vars

\* ------------------------------------------------------------------------
\* POST /feoc/evaluate (metrics.js:1007-1029) and calls on any `items`
\* ------------------------------------------------------------------------
MaxRouteItems == 1

TopLevels ==
    {NoCfg,
     [NoCfg EXCEPT !.installationYear = Num(2024)],
     [installationYear |-> NumStr(2027), maxNetOutputMW |-> Num(0),
      constructionStartDate |-> NumStr(20230128), prevailingWageCompliant |-> "<true>"]}

Projects ==
    {EmptyProject,
     [EmptyProject EXCEPT !.given = TRUE],
     [EmptyProject EXCEPT !.given = TRUE, !.installationYear = Num(2024)],
     [EmptyProject EXCEPT !.given = TRUE, !.year = NumStr(2027),
                          !.maxNetOutputMw = Num(0)],
     [EmptyProject EXCEPT !.given = TRUE, !.installationYear = Text,
                          !.year = Num(2024), !.maxNetOutput = Num(0),
                          !.maxNetOutputMW = Num(5),
                          !.prevailingWageCompliant = "<false>"]}

Bodies == [items : ItemKinds, top : TopLevels, project : Projects]

\* Either a request waiting for the route handler, or a direct call of
\* evaluateFeoc with any value as `items`.
InitRoute ==
    /\ impl \in {"prohibited", "domestic"}
    /\ clock \in ClockYears
    /\ limit = MaxRouteItems
    /\ Start
    /\ \/ /\ pc = "route"
          /\ \E b \in Bodies : route = [via |-> TRUE, status |-> 0, body |-> b]
          /\ items = route.body.items
          /\ cfg = NoCfg
       \/ /\ pc = "loop"
          /\ route = NoRoute
          /\ items \in ItemKinds
          /\ cfg \in TopLevels

\* The handler up to the call of evaluateFeoc: it reads `items` and
\* `project` from the body and nothing else.
FeocEvaluateRoute ==
    /\ pc = "route"
    /\ items' = ArrayOrEmpty(route.body.items)
    /\ cfg' = RouteCfg(route.body, clock)
    /\ pc' = "loop"
    /\ UNCHANGED <<impl, clock, limit, n, rawTotal, acc, feocParts, rest, result, route>>
    /\ UNCHANGED nonEvalVars

NextRoute ==
    \/ FeocEvaluateRoute
    \/ \E raw \in Items : Loop4(raw)
    \/ Finish4
    \/ \E raw \in Items : Loop5(raw)
    \/ Finish5

SpecRoute == InitRoute /\ [][NextRoute]_vars

\* ------------------------------------------------------------------------
\* buildComparison as a state machine
\* ------------------------------------------------------------------------
\* The loop body on its own: one row, with every combination of lookup
\* results.
InitResolve ==
    /\ IdleExcept("compare")
    /\ version \in Versions
    /\ cpc = "row"
    /\ outLen = 0
    /\ src \in Sources
    /\ row = NoRow
    /\ summary = NoSummary
    /\ failed = "none"

Resolve ==
    /\ cpc = "row"
    /\ row' = ResolveRow(version, src)
    /\ summary' = Summarize(version, summary, row')
    /\ outLen' = outLen + 1
    /\ cpc' = "returned"
    /\ UNCHANGED <<version, src, failed>>
    /\ UNCHANGED nonCompareVars

NextResolve == Resolve

SpecResolve == InitResolve /\ [][NextResolve]_vars

\* A call on a list of up to MaxRows rows.
InitCompare ==
    /\ IdleExcept("compare")
    /\ version \in Versions
    /\ cpc = "loop"
    /\ outLen = 0
    /\ src = UnmatchedRow
    /\ row = NoRow
    /\ summary = NoSummary
    /\ failed = "none"

\* One iteration whose lookups all return.
TakeRow(s) ==
    /\ cpc = "loop"
    /\ outLen < MaxRows
    /\ src' = s
    /\ row' = ResolveRow(version, s)
    /\ summary' = Summarize(version, summary, row')
    /\ outLen' = outLen + 1
    /\ UNCHANGED <<version, cpc, failed>>
    /\ UNCHANGED nonCompareVars

\* One iteration in which a lookup throws: nothing in the loop catches it,
\* so the promise of buildComparison rejects and no row is returned.
LookupThrows(which, s) ==
    /\ cpc = "loop"
    /\ outLen < MaxRows
    /\ Invoked(which, s)
    /\ src' = s
    /\ failed' = which
    /\ cpc' = "thrown"
    /\ UNCHANGED <<version, outLen, row, summary>>
    /\ UNCHANGED nonCompareVars

\* After the loop: { items: out, summary }.
Return ==
    /\ cpc = "loop"
    /\ cpc' = "returned"
    /\ UNCHANGED <<version, outLen, src, row, summary, failed>>
    /\ UNCHANGED nonCompareVars

NextCompare ==
    \/ \E s \in SampleRows : TakeRow(s)
    \/ \E which \in Lookups, s \in SampleRows : LookupThrows(which, s)
    \/ Return

SpecCompare == InitCompare /\ [][NextCompare]_vars

\* ------------------------------------------------------------------------
\* AVL lookups as a state machine
\* ------------------------------------------------------------------------
\* The cache holds the normalised rows of some AVL file; a request with any
\* manufacturer and model comes in, over HTTP or as a call of lookup().
InitAvl ==
    /\ IdleExcept("avl")
    /\ \E keep \in SUBSET (1..Len(FileRows)) : avl = normalizeRows(FileWith(keep))
    /\ apc = "request"
    /\ viaRoute \in BOOLEAN
    /\ query \in [manufacturer : Manufacturers, model : Models]
    /\ resp = NoResponse

\* GET /avl/lookup
AvlLookupRoute ==
    /\ apc = "request"
    /\ viaRoute
    /\ resp' = AvlLookupResponse(avl, query)
    /\ apc' = "done"
    /\ UNCHANGED <<avl, viaRoute, query>>
    /\ UNCHANGED nonAvlVars

\* lookup({ manufacturer, model }) called by other code.
LookupCall ==
    /\ apc = "request"
    /\ ~viaRoute
    /\ resp' = [status |-> 0, param |-> "",
                matches |-> lookup(avl, query.manufacturer, query.model)]
    /\ apc' = "done"
    /\ UNCHANGED <<avl, viaRoute, query>>
    /\ UNCHANGED nonAvlVars

NextAvl ==
    \/ AvlLookupRoute
    \/ LookupCall

SpecAvl == InitAvl /\ [][NextAvl]_vars

\* ------------------------------------------------------------------------
\* The Aurora list endpoints as a state machine
\* ------------------------------------------------------------------------
InitList ==
    /\ IdleExcept("list")
    /\ now = 0
    /\ upstream \in {1, 2}
    /\ lreq = ""
    /\ layer = 0
    /\ patched = FALSE
    /\ cache = <<>>
    /\ rl = [count |-> 0, reset |-> AuroraRateWindow]
    /\ served = 0
    /\ lresp = NoListResp
    /\ lastFresh = [k \in ListKeys |-> NoFresh]

\* A GET of a list endpoint comes in; Express starts at the first handler.
\* At most `most` requests come in.
ArriveWithin(key, most) ==
    /\ layer = 0
    /\ served < most
    /\ lreq' = key
    /\ layer' = 1
    /\ patched' = FALSE
    /\ lresp' = NoListResp
    /\ served' = served + 1
    /\ UNCHANGED <<now, upstream, cache, rl, lastFresh>>
    /\ UNCHANGED nonListVars

Arrive(key) == ArriveWithin(key, MaxRequests)

\* One request of a burst of one client within one rate-limit window.
ArriveInBurst(key) == ArriveWithin(key, MaxBurst)

\* res.json(body) of the current request: the patched version stores the
\* body in the cache first (547).
JsonStores(body) ==
    IF patched THEN LruSet(cache, lreq, body, ListTtl, now) ELSE cache

\* The response fields every answer of the current request has.
Answer(status, source, body) ==
    [status |-> status, source |-> source, body |-> body, key |-> lreq, at |-> now,
     prevAt |-> lastFresh[lreq].at, prevBody |-> lastFresh[lreq].body]

\* Express runs the handler the request has come to.  A handler that
\* answers ends the request; one that calls next() passes it on; after the
\* last handler Express answers 404.  `ok` tells whether the call of the
\* Aurora API succeeds.
RunLayer(ok) ==
    /\ layer > 0
    /\ LET h == IF layer <= Len(Stack) THEN Stack[layer] ELSE "notFound"
           got == LruGet(cache, lreq, now)
           rec == RateCount(rl, now, AuroraRateWindow)
       IN  CASE h = "listRoute" ->
                  /\ lresp' = IF ok THEN Answer(200, "aurora", upstream)
                              ELSE Answer(502, "aurora", NoData)
                  /\ cache' = JsonStores(IF ok THEN upstream ELSE NoData)
                  /\ lastFresh' = IF ok
                                  THEN [lastFresh EXCEPT
                                          ![lreq] = [at |-> now, body |-> upstream]]
                                  ELSE lastFresh
                  /\ layer' = 0
                  /\ UNCHANGED <<rl, patched>>
             [] h = "rateLimit" ->
                  /\ rl' = rec
                  /\ IF rec.count > AuroraRateMax
                     THEN /\ lresp' = Answer(429, "", NoData)
                          /\ cache' = JsonStores(NoData)
                          /\ layer' = 0
                     ELSE /\ layer' = layer + 1
                          /\ UNCHANGED <<lresp, cache>>
                  /\ UNCHANGED <<lastFresh, patched>>
             [] h = "cacheCheck" ->
                  /\ IF got.data # NoData
                     THEN /\ lresp' = Answer(200, "cache", got.data)
                          /\ layer' = 0
                     ELSE /\ layer' = layer + 1
                          /\ UNCHANGED lresp
                  /\ cache' = got.map
                  /\ UNCHANGED <<rl, lastFresh, patched>>
             [] h = "cachePatch" ->
                  /\ patched' = TRUE
                  /\ layer' = layer + 1
                  /\ UNCHANGED <<lresp, cache, rl, lastFresh>>
             [] h = "notFound" ->
                  /\ lresp' = Answer(404, "", NoData)
                  /\ layer' = 0
                  /\ UNCHANGED <<cache, rl, lastFresh, patched>>
    /\ UNCHANGED <<now, upstream, lreq, served>>
    /\ UNCHANGED nonListVars

\* Ten seconds pass.
Tick ==
    /\ now < MaxTime
    /\ now' = now + 1
    /\ UNCHANGED <<upstream, lreq, layer, patched, cache, rl, served, lresp, lastFresh>>
    /\ UNCHANGED nonListVars

\* The components listed at Aurora change.
UpstreamChanges ==
    /\ upstream' = 3 - upstream
    /\ UNCHANGED <<now, lreq, layer, patched, cache, rl, served, lresp, lastFresh>>
    /\ UNCHANGED nonListVars

NextList ==
    \/ \E key \in ListKeys : Arrive(key)
    \/ \E ok \in BOOLEAN : RunLayer(ok)
    \/ Tick
    \/ UpstreamChanges

SpecList == InitList /\ [][NextList]_vars

\* A burst of requests of one client, all within the same minute.
NextBurst ==
    \/ \E key \in ListKeys : ArriveInBurst(key)
    \/ \E ok \in BOOLEAN : RunLayer(ok)

SpecBurst == InitList /\ [][NextBurst]_vars

\* ------------------------------------------------------------------------
\* GET /compare/projects as a state machine
\* ------------------------------------------------------------------------
InitCompareCache ==
    /\ IdleExcept("compareCache")
    /\ compareCache = [k \in CompareKeys |-> NoRec]
    /\ creq = [s \in Slots |-> NoCompareReq]
    /\ cserved = 0
    /\ lastStored = [k \in CompareKeys |-> -1]

\* The handler up to its first await: the parameters are valid, the cache
\* is read; a fresh record is answered at once with the header HIT,
\* otherwise aurora.listProjects is called.
CompareProjectsCheck(s, key) ==
    /\ creq[s].pc # "building"
    /\ cserved < MaxRequests
    /\ cserved' = cserved + 1
    /\ LET cacheRec == compareCache[key]
           base == [NoCompareReq EXCEPT !.key = key, !.checkedAt = now,
                                        !.storedBefore = lastStored[key]]
       IN  creq' = [creq EXCEPT ![s] =
                      IF CacheFresh(cacheRec, now)
                      THEN [base EXCEPT !.pc = "done", !.status = 200, !.header = "HIT",
                                        !.payload = cacheRec.payload]
                      ELSE [base EXCEPT !.pc = "building", !.calledAurora = TRUE]]
    /\ UNCHANGED <<compareCache, lastStored>>
    /\ UNCHANGED nonCompareCacheVars

\* The handler after its awaits: the payload built from what Aurora
\* returned is stored and answered with the header MISS; when a call of
\* Aurora failed the catch answers the error, without a header.
CompareProjectsBuild(s, ok) ==
    /\ creq[s].pc = "building"
    /\ IF ok
       THEN /\ compareCache' =
                 [compareCache EXCEPT ![creq[s].key] =
                    [payload |-> upstream, expires |-> now + CompareTtl]]
            /\ lastStored' = [lastStored EXCEPT ![creq[s].key] = now]
            /\ creq' = [creq EXCEPT ![s].pc = "done", ![s].status = 200,
                                    ![s].header = "MISS", ![s].payload = upstream]
       ELSE /\ creq' = [creq EXCEPT ![s].pc = "done", ![s].status = 502]
            /\ UNCHANGED <<compareCache, lastStored>>
    /\ UNCHANGED cserved
    /\ UNCHANGED nonCompareCacheVars

NextCompareCache ==
    \/ \E s \in Slots, key \in CompareKeys : CompareProjectsCheck(s, key)
    \/ \E s \in Slots, ok \in BOOLEAN : CompareProjectsBuild(s, ok)
    \/ Tick
    \/ UpstreamChanges

SpecCompareCache == InitCompareCache /\ [][NextCompareCache]_vars

\* ------------------------------------------------------------------------
\* Both classifiers on one item
\* ------------------------------------------------------------------------
InitClassify ==
    /\ citem \in [nt : ClassifyWords \X ClassifyWords]
    /\ buckets = NoBuckets
    /\ IdleExcept("classify")

\* part_004:36-47 and part_005:31-42 called with the same item.
Classify ==
    /\ ~buckets.done
    /\ buckets' = [done |-> TRUE,
                   prohibited |-> classifyFeocBucket4(citem),
                   domestic |-> classifyFeocBucket5(citem)]
    /\ UNCHANGED citem
    /\ UNCHANGED nonClassifyVars

NextClassify == Classify

SpecClassify == InitClassify /\ [][NextClassify]_vars

\* ------------------------------------------------------------------------
\* The same call twice
\* ------------------------------------------------------------------------
InitTwice ==
    /\ tclock \in ClockYears
    /\ \E which \in {"prohibited", "domestic"}, y \in RawYears, e \in EligSamples,
          list \in UNION {[1..k -> TwiceItems] : k \in 0..MaxTwiceItems} :
         /\ which = "prohibited" => e.maxNetOutputMW = Absent
         /\ tcall = [impl |-> which, list |-> list,
                     cfg |-> [installationYear |-> y,
                              maxNetOutputMW |-> e.maxNetOutputMW,
                              constructionStartDate |-> e.constructionStartDate,
                              prevailingWageCompliant |-> e.prevailingWageCompliant]]
    /\ results = <<>>
    /\ IdleExcept("twice")

\* One call of evaluateFeoc with the argument object.
CallEvaluate ==
    /\ Len(results) < 2
    /\ results' = Append(results,
                         [at |-> tclock,
                          out |-> Evaluate(tcall.impl, tcall.list, tcall.cfg, tclock)])
    /\ UNCHANGED <<tcall, tclock>>
    /\ UNCHANGED nonTwiceVars

\* New Year between or before the calls.
YearPasses ==
    /\ tclock < LastClockYear
    /\ tclock' = tclock + 1
    /\ UNCHANGED <<tcall, results>>
    /\ UNCHANGED nonTwiceVars

NextTwice ==
    \/ CallEvaluate
    \/ YearPasses

SpecTwice == InitTwice /\ [][NextTwice]_vars

\* ------------------------------------------------------------------------
\* callWithRetry calls, possibly overlapping, and the breaker
\* ------------------------------------------------------------------------
InitBreaker ==
    /\ BreakerIdle
    /\ IdleExcept("breaker")

\* The call in slot s has ended.
Done(s, outcome, err, res) ==
    [seq |-> lastDone.seq + 1, slot |-> s, outcome |-> outcome,
     invoked |-> calls[s].invoked, attempt |-> calls[s].attempt,
     err |-> err, res |-> res]

\* callWithRetry is called: the breaker check, and on passing it the first
\* fn() of the loop (part_003:197-210).
CallStartWithin(s, most) ==
    /\ calls[s].pc = "idle"
    /\ started < most
    /\ started' = started + 1
    /\ IF CircuitOpen(breaker, now)
       THEN /\ lastDone' = Done(s, "thrown", CircuitOpenErr, 0)
            /\ UNCHANGED calls
       ELSE /\ calls' = [calls EXCEPT ![s] = [pc |-> "fn", attempt |-> 0,
                                             invoked |-> 1, lastErr |-> NoErr]]
            /\ UNCHANGED lastDone
    /\ UNCHANGED <<breaker, hist>>
    /\ UNCHANGED nonBreakerVars

CallStart(s) == CallStartWithin(s, MaxCalls)

\* A call among the few whose ending is followed.
CallStartLive(s) == CallStartWithin(s, MaxLiveCalls)

\* The pending fn() of slot s resolves (part_003:210-214).  The result is
\* tagged with the number of the attempt that produced it.
FnResolves(s) ==
    /\ calls[s].pc = "fn"
    /\ breaker' = OnSuccess(breaker)
    /\ lastDone' = Done(s, "returned", NoErr, calls[s].invoked)
    /\ calls' = [calls EXCEPT ![s] = NoCallRec]
    /\ hist' = [hist EXCEPT !.streak = 0]
    /\ UNCHANGED started
    /\ UNCHANGED nonBreakerVars

\* The pending fn() of slot s rejects with err (part_003:215-229).
FnRejects(s, err) ==
    /\ calls[s].pc = "fn"
    /\ IF isRetryable(err) /\ calls[s].attempt < MAX_RETRIES
       THEN /\ calls' = [calls EXCEPT ![s].pc = "sleep",
                                      ![s].attempt = calls[s].attempt + 1,
                                      ![s].lastErr = err]
            /\ UNCHANGED <<breaker, lastDone, hist>>
       ELSE /\ breaker' = OnFailure(breaker, now)
            /\ lastDone' = Done(s, "thrown", err, 0)
            /\ calls' = [calls EXCEPT ![s] = NoCallRec]
            /\ hist' = [streak |-> hist.streak + 1,
                        opened |-> hist.opened \/ OnFailure(breaker, now).open]
    /\ UNCHANGED started
    /\ UNCHANGED nonBreakerVars

\* The sleep before a retry ends: the loop condition, then the next fn()
\* (part_003:221-222, 208-210, 231).
Wake(s) ==
    /\ calls[s].pc = "sleep"
    /\ IF calls[s].attempt <= MAX_RETRIES
       THEN /\ calls' = [calls EXCEPT ![s].pc = "fn",
                                      ![s].invoked = calls[s].invoked + 1]
            /\ UNCHANGED <<breaker, lastDone, hist>>
       ELSE /\ lastDone' = Done(s, "thrown", calls[s].lastErr, 0)
            /\ calls' = [calls EXCEPT ![s] = NoCallRec]
            /\ UNCHANGED <<breaker, hist>>
    /\ UNCHANGED started
    /\ UNCHANGED nonBreakerVars

NextBreaker ==
    \/ \E s \in Slots : CallStart(s)
    \/ \E s \in Slots : FnResolves(s)
    \/ \E s \in Slots, err \in Errors : FnRejects(s, err)
    \/ \E s \in Slots : Wake(s)
    \/ Tick

SpecBreaker == InitBreaker /\ [][NextBreaker]_vars

\* Every pending fn() settles and every sleep ends.
Settles(s) == FnResolves(s) \/ \E err \in Errors : FnRejects(s, err)

NextBreakerLive ==
    \/ \E s \in Slots : CallStartLive(s)
    \/ \E s \in Slots : FnResolves(s)
    \/ \E s \in Slots, err \in Errors : FnRejects(s, err)
    \/ \E s \in Slots : Wake(s)
    \/ Tick

SpecBreakerLive ==
    /\ InitBreaker
    /\ [][NextBreakerLive]_vars
    /\ \A s \in Slots : WF_vars(Settles(s)) /\ WF_vars(Wake(s))

\* ------------------------------------------------------------------------
\* Requests through one rateLimit middleware
\* ------------------------------------------------------------------------
InitRate ==
    /\ RateIdle
    /\ IdleExcept("rate")

\* The window of a key a request at time t falls into: the current one up
\* to and including its reset time, a new one after it.
WindowAt(w, t) ==
    IF w.start = -1 \/ t > w.start + RateWindow THEN [start |-> t, passed |-> 0]
    ELSE w

\* A request with the given key runs through the middleware (119-128).
RateRequest(key) ==
    /\ requests < MaxRateRequests
    /\ requests' = requests + 1
    /\ LET rec == RateCount(RateRec(rlStore, key, now, RateWindow), now, RateWindow)
           over == rec.count > RateMax
           w == WindowAt(windows[key], now)
       IN  /\ rlStore' = [rlStore EXCEPT ![key] = rec]
           /\ rlast' = [key |-> key, status |-> IF over THEN 429 ELSE 0,
                        next |-> ~over, at |-> now,
                        newWindow |-> w.start # windows[key].start]
           /\ windows' = [windows EXCEPT
                            ![key] = [w EXCEPT !.passed = IF over THEN @ ELSE @ + 1]]
    /\ UNCHANGED nonRateVars

NextRate ==
    \/ \E key \in RateKeys : RateRequest(key)
    \/ Tick

SpecRate == InitRate /\ [][NextRate]_vars

\* ------------------------------------------------------------------------
\* get and set on one LruTtl
\* ------------------------------------------------------------------------
InitLru ==
    /\ LruIdle
    /\ IdleExcept("lru")

\* cache.get(key)
Get(key) ==
    /\ ops < MaxOps
    /\ ops' = ops + 1
    /\ LET got == LruGet(lru, key, now)
       IN  /\ lru' = got.map
           /\ lout' = [op |-> "get", key |-> key, data |-> got.data]
    /\ UNCHANGED latest
    /\ UNCHANGED nonLruVars

\* cache.set(key, data, ttl): the keys that leave the map with it were evicted.
Set(key, data, ttl) ==
    /\ ops < MaxOps
    /\ ops' = ops + 1
    /\ lru' = LruSetMax(lru, key, data, ttl, now, LruCap)
    /\ lout' = [op |-> "set", key |-> key, data |-> data]
    /\ latest' = [k \in LruKeys |->
                    IF k = key
                    THEN [given |-> TRUE, data |-> data, expires |-> now + ttl,
                          evicted |-> FALSE]
                    ELSE IF k \in Keys(lru) \ Keys(lru')
                    THEN [latest[k] EXCEPT !.evicted = TRUE]
                    ELSE latest[k]]
    /\ UNCHANGED nonLruVars

NextLru ==
    \/ \E key \in LruKeys : Get(key)
    \/ \E key \in LruKeys, data \in LruData, ttl \in LruTtls : Set(key, data, ttl)
    \/ Tick

SpecLru == InitLru /\ [][NextLru]_vars

TypeOK ==
    /\ impl \in {"prohibited", "domestic"}
    /\ pc \in {"idle", "route", "loop", "done"}
    /\ n \in 0..limit
    /\ cpc \in {"idle", "row", "loop", "returned", "thrown"}
    /\ outLen \in 0..MaxRows

\* ------------------------------------------------------------------------
\* Properties
\* ------------------------------------------------------------------------
Done4 == impl = "prohibited" /\ pc = "done"

Done5 == impl = "domestic" /\ pc = "done"

\* The raw line_total is absent or is no finite number.
NoPrice(value) == value.kind \in {"absent", "empty", "text"}

Unpriced(raw) == NoPrice(raw.line_total)

\* The item has neither an origin_country nor an is_domestic flag.
NoOrigin(raw) == raw.origin_country = "" /\ raw.is_domestic = "<absent>"

\* C1: in both implementations, a bucket whose unknown total is above 0 has
\* a null percentage, and in the domestic-content evaluator its compliance
\* flag is then null.
C1_UnknownGivesNullPercent ==
    /\ Done4 =>
         /\ result.totals.steel_unknown_total > 0
              => result.percentages.steel_foreign_percent = NoNum
         /\ result.totals.manufactured_unknown_total > 0
              => result.percentages.manufactured_foreign_percent = NoNum
    /\ Done5 =>
         /\ result.totals.steel_unknown_total > 0
              => /\ result.percentages.steel_domestic_percent = NoNum
                 /\ result.compliance.steelIronCompliant = "null"
         /\ result.totals.manufactured_unknown_total > 0
              => /\ result.percentages.manufactured_domestic_percent = NoNum
                 /\ result.compliance.manufacturedProductsCompliant = "null"

\* A domestic-content result with unknown cost beside known domestic cost in
\* the manufactured bucket.
C1_Witness ==
    /\ Done5
    /\ result.totals.manufactured_unknown_total > 0
    /\ result.totals.manufactured_domestic_total > 0
    /\ result.percentages.manufactured_domestic_percent = NoNum

\* C2: for every bucket, total = domestic cost + foreign total + unknown
\* total.  `rest` is the class the implementation keeps no total of.
C2_TotalIsPartition ==
    /\ Done4 =>
         /\ result.totals.steel_total =
              rest.steel + result.totals.steel_foreign_total
              + result.totals.steel_unknown_total
         /\ result.totals.manufactured_total =
              rest.manufactured + result.totals.manufactured_foreign_total
              + result.totals.manufactured_unknown_total
    /\ Done5 =>
         /\ result.totals.steel_total =
              result.totals.steel_domestic_total + rest.steel
              + result.totals.steel_unknown_total
         /\ result.totals.manufactured_total =
              result.totals.manufactured_domestic_total + rest.manufactured
              + result.totals.manufactured_unknown_total

\* C3: a priced item with neither origin_country nor is_domestic raises the
\* bucket total and the unknown total only, never a foreign total or the
\* foreign percentage.
C3_UnknownIsNeverForeign ==
    [][\A raw \in Items :
         (~Unpriced(raw) /\ NoOrigin(raw) /\ Loop4(raw))
           => /\ acc'.steel_foreign_total = acc.steel_foreign_total
              /\ acc'.manufactured_foreign_total = acc.manufactured_foreign_total
              /\ Result4(acc', feocParts', Year).percentages.total_foreign_percent
                   <= Result4(acc, feocParts, Year).percentages.total_foreign_percent]_vars

C5_ZeroFeocFrom2026 ==
    (Done4 /\ Year >= 2026 /\ result.totals.total_project_cost > 0)
      => (result.compliance.feocCompliant = "true"
            <=> result.totals.total_feoc_cost = 0)

\* The three paths as the claim reads them off the raw inputs.
PathSmallProject ==
    IF cfg.maxNetOutputMW.kind \in {"number", "numstr"}
    THEN Bool3(cfg.maxNetOutputMW.val < 1) ELSE "null"

PathEarlyConstruction ==
    IF cfg.constructionStartDate.kind = "numstr"
    THEN Bool3(cfg.constructionStartDate.val < 20230129) ELSE "null"

PathPrevailingWage ==
    IF cfg.prevailingWageCompliant \in {"<true>", "<false>"}
    THEN Bool3(cfg.prevailingWageCompliant = "<true>")
    ELSE IF cfg.prevailingWageCompliant = "no" THEN "false"
    ELSE "null"

\* C6: eligibility is the three-valued OR of the three paths: true when a
\* path is true, false only when all three are false, null otherwise; a
\* missing or unparsable input makes its path null.
C6_EligibilityIsTriStateOr ==
    Done5 =>
      LET paths == {PathSmallProject, PathEarlyConstruction, PathPrevailingWage}
          r == result.eligibility.reasons
      IN  /\ r.smallProject = PathSmallProject
          /\ r.earlyConstruction = PathEarlyConstruction
          /\ r.prevailingWage = PathPrevailingWage
          /\ result.eligibility.eligible =
               (IF "true" \in paths THEN "true"
                ELSE IF paths = {"false"} THEN "false"
                ELSE "null")
          /\ result.compliance.projectEligible = result.eligibility.eligible

\* A project below 1 MW whose other two paths are false or unknown.
C6_Witness ==
    /\ Done5
    /\ PathSmallProject = "true"
    /\ PathEarlyConstruction = "false"
    /\ PathPrevailingWage = "null"
    /\ result.eligibility.eligible = "true"

\* C7: the overall result is the three-valued AND of steelIronCompliant,
\* manufacturedProductsCompliant and eligible.
C7_OverallIsTriStateAnd ==
    Done5 =>
      LET c == result.compliance
          parts == {c.steelIronCompliant, c.manufacturedProductsCompliant,
                    c.projectEligible}
      IN  c.feocCompliant =
            (IF "false" \in parts THEN "false"
             ELSE IF "null" \in parts THEN "null"
             ELSE "true")

\* A result with one part false beside one part unknown.
C7_Witness ==
    /\ Done5
    /\ result.compliance.steelIronCompliant = "null"
    /\ result.compliance.manufacturedProductsCompliant = "false"
    /\ result.compliance.projectEligible = "true"
    /\ result.compliance.feocCompliant = "false"

\* C8: a bucket is reported compliant only when its actual cost ratio meets
\* the requirement: all of the steel/iron cost domestic, and
\* manufactured_domestic_total * 100 >= required * manufactured_total.
C8_ComplianceOnActualRatio ==
    Done5 =>
      /\ result.compliance.steelIronCompliant = "true"
           => result.totals.steel_domestic_total = result.totals.steel_total
      /\ result.compliance.manufacturedProductsCompliant = "true"
           => result.totals.manufactured_domestic_total * 100
                >= result.inputs.requiredManufacturedDomesticPercent
                     * result.totals.manufactured_total

\* The origin class the claim gives an item of the domestic-content
\* evaluator.
OriginClass(raw) ==
    IF parseBooleanish(raw.is_domestic) = "true" \/ toUpperCase(raw.origin_country) = "US"
    THEN "domestic"
    ELSE IF parseBooleanish(raw.is_domestic) = "false" \/ raw.origin_country # ""
    THEN "foreign"
    ELSE "unknown"

\* C9: the domestic-content evaluator classifies a priced item from both
\* fields: domestic if is_domestic is true or origin_country is US, foreign
\* if explicitly non-domestic, unknown only if neither field is given (so
\* the CN panel of Scenario A/B is foreign cost, not unknown cost).
C9_OriginFromBothFields ==
    [][\A raw \in Items :
         (~Unpriced(raw) /\ Loop5(raw))
           => LET lt == parseNumberish(raw.line_total)
                  domestic == acc.steel_domestic_total + acc.manufactured_domestic_total
                  domestic1 == acc'.steel_domestic_total + acc'.manufactured_domestic_total
                  unknown == acc.steel_unknown_total + acc.manufactured_unknown_total
                  unknown1 == acc'.steel_unknown_total + acc'.manufactured_unknown_total
              IN  /\ domestic1 = domestic + Add(OriginClass(raw) = "domestic", lt)
                  /\ unknown1 = unknown + Add(OriginClass(raw) = "unknown", lt)]_vars

\* C10: an item without a usable price changes nothing: the accumulators,
\* the list of FEOC parts and with them every total, percentage and
\* compliance value of the result stay as they are.
C10_UnpricedItemChangesNothing ==
    [][(n' = n + 1 /\ NoPrice(rawTotal'))
         => /\ acc' = acc
            /\ feocParts' = feocParts
            /\ rest' = rest
            /\ impl = "prohibited"
                 => Result4(acc', feocParts', Year) = Result4(acc, feocParts, Year)
            /\ impl = "domestic"
                 => Result5(acc', cfg, Year) = Result5(acc, cfg, Year)]_vars

\* An unpriced item was taken after a priced one.
C10_Witness ==
    /\ pc = "loop"
    /\ n = 2
    /\ NoPrice(rawTotal)
    /\ acc.steel_total + acc.manufactured_total > 0

\* The `items` the caller gave is not a list: the body's `items` for a
\* request, the argument for a direct call.
ItemsNotAList ==
    IF route.via THEN route.body.items \notin {"array", "empty"}
    ELSE items \notin {"array", "empty"}

\* C11 (as stated): when `items` is not a list, neither evaluateFeoc nor
\* POST /feoc/evaluate ever produces a compliance result; they end in an
\* error.
C11_NonListIsRejected ==
    ItemsNotAList => (result = NoResult /\ route.status # 200)

\* C11 (amended): when `items` is not a list it is evaluated as the empty
\* list: no iteration runs, the returned result is the one of `[]` (all
\* totals 0, no bucket percentage in the domestic-content evaluator,
\* feocCompliant true in the prohibited-origin evaluator) and the route
\* answers 200.
C11_NonListIsEmptyList ==
    (ItemsNotAList /\ pc = "done")
      => /\ n = 0
         /\ route.via => route.status = 200
         /\ impl = "prohibited"
              => /\ result = Result4(Acc4Init, <<>>, Year)
                 /\ result.totals.total_project_cost = 0
                 /\ result.compliance.feocCompliant = "true"
                 /\ result.compliance.feocDetected = "false"
         /\ impl = "domestic"
              => /\ result = Result5(Acc5Init, cfg, Year)
                 /\ result.totals.steel_total = 0
                 /\ result.totals.manufactured_total = 0
                 /\ result.percentages.steel_domestic_percent = NoNum
                 /\ result.percentages.manufactured_domestic_percent = NoNum

\* The route answered a body whose `items` is a plain object.
C11_Witness ==
    /\ pc = "done"
    /\ route.via
    /\ route.status = 200
    /\ route.body.items = "object"
    /\ result # NoResult

\* C15: POST /feoc/evaluate evaluates with the installationYear given at the
\* top level of the body, next to `items`: the result's
\* inputs.installationYear is the year the client sent.
C15_TopLevelYearIsUsed ==
    (route.via /\ pc = "done"
       /\ parseNumberish(route.body.top.installationYear) # NoNum)
      => result.inputs.installationYear
           = parseNumberish(route.body.top.installationYear)

\* C19: in the prohibited-origin evaluator the FEOC cost of each bucket,
\* and of the project, is never above the foreign cost.
C19_FeocWithinForeign ==
    Done4
      => /\ result.totals.steel_feoc_total <= result.totals.steel_foreign_total
         /\ result.totals.manufactured_feoc_total
              <= result.totals.manufactured_foreign_total
         /\ result.totals.total_feoc_cost <= result.totals.total_foreign_cost

\* The catalog part of the row is found and its origin is known.
PartKnown(s) == s.part.found /\ isKnownOrigin(s.part.originCountry)

\* C12 (as stated): origin and domestic flag follow the precedence of the
\* price: when the catalog part carries a known origin_country / is_domestic
\* the row reports the part's values, whatever the materials reference says.
C12_PartOriginWins ==
    (cpc = "returned" /\ PartKnown(src))
      => /\ row.origin_country = src.part.originCountry
         /\ version = "domestic" => row.is_domestic = src.part.isDomestic

\* C12 (amended): the version that reports is_domestic takes the flag and
\* the origin from the materials reference whenever that one has a flag, and
\* from the catalog part only when it has none and the part's origin is
\* known; the pricing version takes origin_country from the catalog part
\* first and from the materials reference only when the part gives none.
C12_MaterialsFlagWins ==
    cpc = "returned"
      => LET m == PickMaterial(src)
         IN  /\ (version = "domestic" /\ m.isDomestic # "null")
                  => /\ row.is_domestic = m.isDomestic
                     /\ row.origin_country = MaterialOrigin(m.isDomestic)
             /\ (version = "domestic" /\ m.isDomestic = "null" /\ PartKnown(src))
                  => /\ row.is_domestic = src.part.isDomestic
                     /\ row.origin_country = src.part.originCountry
             /\ (version = "domestic" /\ m.isDomestic = "null" /\ ~PartKnown(src))
                  => /\ row.is_domestic = "null"
                     /\ row.origin_country = ""
             /\ (version = "pricing" /\ src.part.originCountry # "")
                  => row.origin_country = src.part.originCountry
             /\ (version = "pricing" /\ src.part.originCountry = "")
                  => row.origin_country = MaterialOrigin(m.isDomestic)

\* A part from CN that is not domestic, and a materials entry flagged
\* domestic: the row reports the materials entry's values.
C12_Witness ==
    /\ cpc = "returned"
    /\ version = "domestic"
    /\ src.part.originCountry = "CN"
    /\ src.part.isDomestic = "false"
    /\ PickMaterial(src).isDomestic = "true"
    /\ row.is_domestic = "true"
    /\ row.origin_country = "US"

\* C20: each field is resolved on its own: unit_price (and, where it is
\* reported, is_domestic) is null only if none of the sources consulted for
\* the row has it; a matched source that lacks the field does not keep a
\* later one from supplying it.
C20_FieldsResolveIndependently ==
    cpc = "returned"
      => /\ row.unit_price = NoNum
              => /\ src.part.unitPrice = NoNum
                 /\ src.materialFromMapped.unitPrice = NoNum
                 /\ src.materialFromPartSku.unitPrice = NoNum
                 /\ src.materialFromName.unitPrice = NoNum
         /\ (version = "domestic" /\ row.is_domestic = "null")
              => /\ ~PartKnown(src)
                 /\ src.materialFromMapped.isDomestic = "null"
                 /\ src.materialFromPartSku.isDomestic = "null"
                 /\ src.materialFromName.isDomestic = "null"

\* C13: a lookup that throws counts as "no match" for its source: the call
\* goes on, the row is emitted and every row is still returned; the call
\* never ends with the lookup's exception.
C13_FailedLookupDegrades ==
    failed # "none" => (cpc \in {"loop", "returned"} /\ outLen > 0)

\* Nothing matches the row: it is not mapped, no part is found and the
\* materials reference has no entry for it.
Unmatched(s) ==
    /\ ~s.mapped
    /\ ~s.part.found
    /\ ~s.materialFromMapped.found
    /\ ~s.materialFromPartSku.found
    /\ ~s.materialFromName.found

\* C14: a component that nothing matches is emitted as a row whose
\* matched_sku, unit_price, line_total, origin_country and is_domestic are
\* null, and it adds nothing to the totals of the summary.
C14_UnmatchedRowIsEmpty ==
    [][(outLen' = outLen + 1 /\ Unmatched(src'))
         => /\ row'.matched_sku = ""
            /\ row'.unit_price = NoNum
            /\ row'.line_total = NoNum
            /\ row'.origin_country = ""
            /\ row'.is_domestic = "null"
            /\ row'.quantity = src'.quantity
            /\ summary' = summary
            /\ cpc' # "thrown"]_vars

\* An unmatched row with a quantity came after a priced row and the list
\* was returned.
C14_Witness ==
    /\ cpc = "returned"
    /\ outLen = 2
    /\ Unmatched(src)
    /\ src.quantity = 2
    /\ row.line_total = NoNum
    /\ summary.total + summary.domestic_total + summary.non_domestic_total
         + summary.unknown_total > 0

\* Equality and prefix of strings, letter case aside.
CiEqual(a, b) ==
    /\ Len(a) = Len(b)
    /\ \A i \in 1..Len(a) : Lower(a[i]) = Lower(b[i])

CiPrefix(base, s) ==
    /\ Len(base) <= Len(s)
    /\ \A i \in 1..Len(base) : Lower(base[i]) = Lower(s[i])

\* The row is one the lookup of (manufacturer, model) has to return.
Approves(r, manufacturer, model) ==
    /\ CiEqual(r.manufacturer, manufacturer)
    /\ \/ r.model_pattern = <<"*">>
       \/ /\ r.model_pattern # <<"*">>
          /\ endsWith(r.model_pattern, "*")
          /\ CiPrefix(SubSeq(r.model_pattern, 1, Len(r.model_pattern) - 1), model)
       \/ /\ ~endsWith(r.model_pattern, "*")
          /\ CiEqual(r.model_pattern, model)

\* C18: the AVL lookup returns exactly the rows whose manufacturer equals
\* the requested one, letter case aside, and whose model_pattern matches
\* the requested model (surrounding blanks removed): "*" matches every
\* model, a pattern that ends in "*" matches by case-insensitive prefix, any
\* other pattern by case-insensitive equality.  GET /avl/lookup answers 400
\* when manufacturer or model is missing and 200 with that list otherwise.
C18_LookupReturnsApprovedRows ==
    apc = "done"
      => IF viaRoute
         THEN IF trim(query.manufacturer) = <<>> \/ trim(query.model) = <<>>
              THEN resp.status = 400 /\ resp.matches = <<>>
              ELSE /\ resp.status = 200
                   /\ resp.matches =
                        SelectSeq(avl, LAMBDA r : Approves(r, trim(query.manufacturer),
                                                           trim(query.model)))
         ELSE resp.matches =
                  SelectSeq(avl, LAMBDA r : Approves(r, query.manufacturer,
                                                     trim(query.model)))

\* The route answered 200 with the wildcard row and the prefix row, the
\* prefix matching a model written in another letter case.
C18_Witness ==
    /\ apc = "done"
    /\ viaRoute
    /\ resp.status = 200
    /\ Len(resp.matches) = 2
    /\ query.manufacturer = <<"m">>
    /\ query.model = <<"A", "b">>
    /\ resp.matches[1].model_pattern = <<"*">>
    /\ resp.matches[2].model_pattern = <<"a", "*">>

\* C16: after a successful GET of a list endpoint, a GET with the same
\* limit and cursor that comes less than 30 s after it is answered from the
\* cache, with the same body and without a call of the Aurora API.
C16_RepeatedListIsCached ==
    (lresp.status = 200 /\ lresp.prevAt >= 0 /\ lresp.at - lresp.prevAt < ListTtl)
      => (lresp.source = "cache" /\ lresp.body = lresp.prevBody)

\* C17: every successful response of GET /compare/projects carries the
\* header X-Compare-Cache, HIT or MISS.  It is HIT exactly when a payload
\* for the same key had been stored less than 30 s before the handler read
\* the cache; then the stored payload is returned and Aurora is not called.
\* Otherwise it is MISS, and the payload just built is stored for 30 s.
C17_HitOrMissHeader ==
    [][\A s \in Slots :
         LET r == creq'[s]
         IN  (creq'[s] # creq[s] /\ r.pc = "done" /\ r.status = 200)
               => /\ r.header \in {"HIT", "MISS"}
                  /\ r.header = "HIT"
                       <=> (r.storedBefore >= 0
                            /\ r.checkedAt - r.storedBefore < CompareTtl)
                  /\ r.header = "HIT"
                       => /\ ~r.calledAurora
                          /\ r.payload = compareCache[r.key].payload
                          /\ compareCache' = compareCache
                  /\ r.header = "MISS"
                       => /\ r.calledAurora
                          /\ compareCache'[r.key] =
                               [payload |-> r.payload, expires |-> now + CompareTtl]]_vars

\* A request was answered HIT with a payload stored 20 s before, after the
\* data at Aurora had changed; the request that stored it was answered
\* MISS.
C17_Witness ==
    \E s, t \in Slots :
        /\ creq[s].header = "HIT"
        /\ creq[s].status = 200
        /\ creq[s].checkedAt - creq[s].storedBefore = 2
        /\ creq[s].payload # upstream
        /\ creq[t].header = "MISS"
        /\ creq[t].key = creq[s].key

\* C21: for every (name, type) the classifyFeocBucket of the prohibited-origin
\* module and the one of the domestic-content module return the same bucket.
C21_SameBucket ==
    buckets.done => buckets.prohibited = buckets.domestic

\* C22 as stated: two calls with the same item list and the same configuration
\* fields return identical results whenever they are made.
C22_SameResultWhenever ==
    Len(results) = 2 => results[1].out = results[2].out

\* C22: two calls with the same item list and the same configuration fields
\* return identical results when installationYear is a number, or when both
\* calls are made in the same calendar year.
C22_SameResultGivenYear ==
    (/\ Len(results) = 2
     /\ \/ parseNumberish(tcall.cfg.installationYear) # NoNum
        \/ results[1].at = results[2].at)
    => results[1].out = results[2].out

\* Two calls in different years with installationYear given and one item.
C22_Witness ==
    /\ Len(results) = 2
    /\ results[1].at # results[2].at
    /\ parseNumberish(tcall.cfg.installationYear) # NoNum
    /\ Len(tcall.list) = 1
    /\ results[1].out = results[2].out

\* C23: once a client has made 100 requests under /aurora within a window, every
\* further request of that window is answered 429 and makes no Aurora call.
C23_OverLimitIs429 ==
    (served > AuroraRateMax /\ layer = 0 /\ lresp # NoListResp)
    => (lresp.status = 429 /\ lresp.source # "aurora")

\* C24: while the breaker is open and the cooldown has not elapsed, a call of
\* callWithRetry is rejected with AURORA_CIRCUIT_OPEN without invoking fn, and
\* the rejection leaves breaker.failures and breaker.open as they were.
C24_OpenRejects ==
    [][(/\ started' = started + 1
        /\ breaker.open
        /\ now - breaker.openedAt < COOL_DOWN_MS)
       => (/\ lastDone'.seq = lastDone.seq + 1
           /\ lastDone'.outcome = "thrown"
           /\ lastDone'.err.code = "AURORA_CIRCUIT_OPEN"
           /\ lastDone'.invoked = 0
           /\ calls' = calls
           /\ breaker' = breaker)]_vars

\* A call has been rejected by the open breaker in the last unit of the cooldown.
C24_Witness ==
    /\ lastDone.err.code = "AURORA_CIRCUIT_OPEN"
    /\ breaker.open
    /\ now - breaker.openedAt = COOL_DOWN_MS - 1

\* C25: once the breaker has opened it stays open for the whole cooldown,
\* whatever calls complete in the meantime.
C25_StaysOpenForCooldown ==
    (hist.opened /\ now - breaker.openedAt < COOL_DOWN_MS) => breaker.open

\* A call in slot s goes from a failed attempt to the sleep before a retry.
Retries(s) == calls[s].pc = "fn" /\ calls'[s].pc = "sleep"

\* A call that passed the breaker check ends in this step.
Ends == lastDone'.seq # lastDone.seq /\ lastDone'.err.code # "AURORA_CIRCUIT_OPEN"

\* C26: the breaker is open only if failures >= MAX_FAILURES; failures is the
\* number of calls that ended in failure since the last successful call, a
\* call adds at most 1 to it and nothing on a retry, the breaker opens only at
\* MAX_FAILURES such calls, and a successful call sets failures to 0 and open to
\* false.
C26_BreakerCounts ==
    /\ [](/\ breaker.open => breaker.failures >= MAX_FAILURES
          /\ breaker.failures = hist.streak)
    /\ [][/\ breaker'.failures <= breaker.failures + 1
          /\ (~breaker.open /\ breaker'.open) => hist'.streak >= MAX_FAILURES
          /\ \A s \in Slots : Retries(s) => breaker' = breaker
          /\ (Ends /\ lastDone'.outcome = "thrown")
             => breaker'.failures = breaker.failures + 1
          /\ (Ends /\ lastDone'.outcome = "returned")
             => (breaker'.failures = 0 /\ ~breaker'.open)]_vars

\* The breaker is open after a call that failed on its last retry.
C26_Witness ==
    /\ breaker.open
    /\ breaker.failures = MAX_FAILURES
    /\ lastDone.outcome = "thrown"
    /\ lastDone.attempt = MAX_RETRIES

\* C27: a call that passed the breaker check ends; it invokes fn at least once
\* and at most MAX_RETRIES + 1 times, returns the result of the first attempt
\* that succeeds or throws the error of its last attempt, and never retries
\* an error with an HTTP status below 500.
C27_CallTerminates ==
    /\ [](\A s \in Slots :
            /\ calls[s].invoked <= MAX_RETRIES + 1
            /\ calls[s].pc # "idle" => calls[s].invoked >= 1)
    /\ [][/\ \A s \in Slots :
               Retries(s) => /\ calls'[s].lastErr.status \notin 1..499
                             /\ calls[s].attempt < MAX_RETRIES
          /\ Ends => /\ lastDone'.invoked \in 1..(MAX_RETRIES + 1)
                     /\ lastDone'.invoked = lastDone'.attempt + 1
                     /\ lastDone'.outcome \in {"returned", "thrown"}
                     /\ lastDone'.outcome = "returned"
                        => lastDone'.res = lastDone'.invoked
                     /\ lastDone'.outcome = "thrown"
                        => /\ lastDone'.err \in Errors
                           /\ lastDone'.attempt < MAX_RETRIES
                              => lastDone'.err.status \in 1..499]_vars
    /\ \A s \in Slots : (calls[s].pc # "idle") ~> (calls[s].pc = "idle")

\* A call has returned the result of its last permitted attempt.
C27_Witness ==
    /\ lastDone.outcome = "returned"
    /\ lastDone.invoked = MAX_RETRIES + 1
    /\ lastDone.res = MAX_RETRIES + 1

\* C28: for each key rateLimit passes at most max requests of one window on
\* to next; every further request of the window is answered 429 without
\* next; the count restarts only with the first request that arrives after
\* the window's reset time.
C28_AtMostMaxPerWindow ==
    /\ [](\A k \in RateKeys : windows[k].passed <= RateMax)
    /\ [][requests' = requests + 1 =>
            LET k == rlast'.key
                w == WindowAt(windows[k], now)
            IN  /\ rlast'.next <=> w.passed < RateMax
                /\ rlast'.status = 429 <=> ~rlast'.next
                /\ rlStore'[k].reset = w.start + RateWindow
                /\ rlStore'[k].count =
                     IF rlast'.newWindow THEN 1 ELSE RateRec(rlStore, k, now, 0).count + 1
          ]_vars

\* A request has been answered 429 in a window that is not the key's first.
C28_Witness ==
    /\ rlast.status = 429
    /\ ~rlast.next
    /\ windows[rlast.key].start > 0
    /\ windows[rlast.key].passed = RateMax

\* C29: an LruTtl never holds more than max entries; get(key) returns the
\* data of the latest set(key, ...) only while that entry has neither expired
\* nor been evicted; after its expiry time get returns null and removes the
\* entry.
C29_LruTtlContract ==
    /\ [](Len(lru) <= LruCap)
    /\ [][(ops' = ops + 1 /\ lout'.op = "get") =>
            LET l == latest[lout'.key]
            IN  /\ lout'.data # NoData
                   => (/\ l.given
                       /\ lout'.data = l.data
                       /\ now <= l.expires
                       /\ ~l.evicted)
                /\ (l.given /\ now > l.expires)
                   => (lout'.data = NoData /\ lout'.key \notin Keys(lru'))
          ]_vars

\* A get of an entry that was set and not evicted has returned null and
\* removed it from a full instance: the entry had expired.
C29_Witness ==
    /\ lout.op = "get"
    /\ lout.data = NoData
    /\ latest[lout.key].given
    /\ ~latest[lout.key].evicted
    /\ now > latest[lout.key].expires
    /\ lout.key \notin Keys(lru)
    /\ Len(lru) = LruCap - 1

====
